---------------------------- MODULE Spec2Model ----------------------------
(***************************************************************************)
(* N-puzzle solver of oduvan/puzzle15: the tuple board of matrix.py, the   *)
(* Puzzle object of model.py, the pattern database builder of              *)
(* pattern_db.py and the IDA* driver of calculate.py.                      *)
(*                                                                         *)
(* Python values are modelled as follows.                                  *)
(*  - A tuple or list is a sequence; Python index i is TLA+ index i + 1.   *)
(*  - A Python int that holds packed bits (compress, compress_moves) is    *)
(*    unbounded, so it is a sequence of bits, least significant first,     *)
(*    with no leading zero bit: two such sequences are equal exactly when  *)
(*    the integers are.                                                    *)
(*  - A Python str made of digits (Puzzle.hash) is the sequence of its     *)
(*    digits.  A dict key carries its Python type, since a str never       *)
(*    equals an int.                                                       *)
(***************************************************************************)
EXTENDS Integers, Sequences, FiniteSets, TLC

VARIABLES
    m_root,     \* tuple-board walk: the state the walk started from
    m_state,    \* tuple-board walk: the current state
    m_steps,    \* tuple-board walk: number of moves made
    m_call,     \* the arguments of the last matrix.move call
    m_ret,      \* what that call returned
    f_call,     \* a call of a function of matrix.py or calculate.py on its own
    f_ret,      \* what that call returned
    t_saved,    \* the locals of the thread that is not running, when two solve
    pc,             \* where the builder process, then the solver process, stands
    board_size,     \* main: board_size
    tile_groups,    \* main: tile_groups, the partition
    group_number,   \* index in tile_groups of the group being built (from 1)
    open_list,      \* build_pattern_database: queue of (puzzle, previous move)
    visited,        \* build_pattern_database: hashes with the blank already explored
    closed_list,    \* build_pattern_database: pattern hash -> move count
    built,          \* main: pattern_databases, the results of the builds so far
    db_file,        \* the pickled content of pattern_db_<N>.dat, per board size
    pattern_groups,     \* calculate.py global
    pattern_databases,  \* calculate.py global
    ida_state,          \* ida_star: the argument state
    use_frontier,       \* ida_star: the argument use_frontier
    bound,              \* ida_star: bound
    path,               \* ida_star: path
    move_sequence,      \* ida_star: move_sequence
    frontier,           \* ida_star: frontier, a dict in insertion order
    snapshot,           \* ida_star: list(frontier.items()) of the running scan
    scan_index,         \* ida_star: position of the scan in snapshot (from 1)
    min_exceeded,       \* ida_star: min_exceeded
    frontier_path,      \* ida_star: frontier_path of the scanned node
    moves,              \* ida_star: moves of the scanned node
    stack,              \* the frames of the running search calls, the innermost last
    ret,                \* what the search call that returned last returned
    returned,           \* the ida_star calls that returned, in order
    clock               \* steps taken by the running ida_star call

matrixVars == <<m_root, m_state, m_steps, m_call, m_ret, f_call, f_ret, t_saved>>
buildVars == <<board_size, tile_groups, group_number, open_list, visited, closed_list, built, db_file>>
solveVars == <<pattern_groups, pattern_databases, ida_state, use_frontier, bound, path,
               move_sequence, frontier, snapshot, scan_index, min_exceeded, frontier_path,
               moves, stack, ret, returned, clock>>
vars == <<m_root, m_state, m_steps, m_call, m_ret, f_call, f_ret, t_saved, pc, board_size, tile_groups,
          group_number, open_list, visited, closed_list, built, db_file,
          pattern_groups, pattern_databases, ida_state, use_frontier, bound, path,
          move_sequence, frontier, snapshot, scan_index, min_exceeded, frontier_path,
          moves, stack, ret, returned, clock>>

(***************************************************************************)
(* Bounds of the model.                                                    *)
(***************************************************************************)
\* largest board size of the tuple-board walk (sizes 2..MaxSize)
MaxSize == 3
\* longest walk of matrix.move calls from a root state
MaxWalk == 4
\* largest |vertical| and |horizontal| handed to matrix.move
MaxStep == 2
\* number of tiles in each group of the partition the databases are built for
GroupSize == 2
\* the 3x3 inputs of the solver are the states at most this many moves from the goal
MaxScramble == 8
\* most steps one ida_star call may take
MaxSteps == 6000

\* every list of at most this many moves goes through the move codec
MaxMoves == 3
\* the lengths of the long move lists that go through the move codec
LongLengths == {50, 254, 255, 256}

\* the costs the databases handed to calculate_heuristic start from
DbBases == {0, 20}

\* the inputs of two concurrent solves are at most this many moves from the goal
MaxThreadScramble == 1
\* most times the running thread is preempted before it is done
MaxSwitches == 2

\* the board sizes databases are built and puzzles solved for (main builds
\* for board_size = 4, whose databases are out of reach of a model)
BuildSizes == {2, 3}

(***************************************************************************)
(* Unbounded non-negative Python ints as bit sequences.                    *)
(***************************************************************************)
\* drop the zero bits at the most significant end
Norm(b) ==
    SubSeq(b, 1, CHOOSE n \in 0..Len(b) :
                     /\ n = 0 \/ b[n] # 0
                     /\ \A j \in (n + 1)..Len(b) : b[j] = 0)

RECURSIVE FromNat(_)
\* the bits of a small natural number
FromNat(n) == IF n = 0 THEN <<>> ELSE <<n % 2>> \o FromNat(n \div 2)

RECURSIVE ToNat(_)
\* the value of a short bit sequence
ToNat(b) == IF b = <<>> THEN 0 ELSE b[1] + 2 * ToNat(Tail(b))

\* x << k
Shl(x, k) == IF x = <<>> THEN <<>> ELSE [i \in 1..(Len(x) + k) |-> IF i <= k THEN 0 ELSE x[i - k]]

\* x >> k
Shr(x, k) == IF k >= Len(x) THEN <<>> ELSE SubSeq(x, k + 1, Len(x))

\* x | y
BitOr(x, y) ==
    LET n == IF Len(x) > Len(y) THEN Len(x) ELSE Len(y)
        bx(i) == IF i <= Len(x) THEN x[i] ELSE 0
        by(i) == IF i <= Len(y) THEN y[i] ELSE 0
    IN  [i \in 1..n |-> IF bx(i) = 1 \/ by(i) = 1 THEN 1 ELSE 0]

\* x & ((1 << k) - 1)
LowBits(x, k) == Norm(SubSeq(x, 1, IF k < Len(x) THEN k ELSE Len(x)))

RECURSIVE bit_length(_)
\* int.bit_length()
bit_length(n) == IF n = 0 THEN 0 ELSE 1 + bit_length(n \div 2)

Abs(x) == IF x < 0 THEN -x ELSE x

(***************************************************************************)
(* matrix.py                                                               *)
(***************************************************************************)
\* Python's None where a state (a tuple) is expected, and where a tile is
NoneState == <<-1>>
NoneTile == -1

\* tuple(range(1, size * size)) + (0,)
get_win(size) == [i \in 1..(size * size) |-> IF i = size * size THEN 0 ELSE i]

\* int(math.sqrt(length))
get_size_by_length(length) == CHOOSE n \in 0..length : n * n <= length /\ (n + 1) * (n + 1) > length

get_size(state) == get_size_by_length(Len(state))

\* state.index(0), as a Python index
IndexOf(state, v) == (CHOOSE i \in 1..Len(state) : state[i] = v /\ \A j \in 1..(i - 1) : state[j] # v) - 1

\* a bounds test on the flat index alone: a horizontal step wraps into the next row
move_out_of_bounds_flat(size, new_row, new_col) ==
    new_row * size + new_col < 0 \/ new_row * size + new_col >= size * size

\* the bounds test of move, on the new row and the new column
move_out_of_bounds(size, new_row, new_col) ==
    new_row < 0 \/ new_row >= size \/ new_col < 0 \/ new_col >= size

\* move with vertical and horizontal taken as the displacement of the tile,
\* the blank going the other way
move_tile_displacement(state, vertical, horizontal) ==
    LET size == get_size(state)
        zero_index == IndexOf(state, 0)
        new_row == (zero_index \div size) - vertical
        new_col == (zero_index % size) - horizontal
        new_index == new_row * size + new_col
    IN  IF move_out_of_bounds(size, new_row, new_col)
        THEN <<NoneState, NoneTile>>
        ELSE << [i \in 1..Len(state) |->
                    IF i - 1 = zero_index THEN state[new_index + 1]
                    ELSE IF i - 1 = new_index THEN state[zero_index + 1]
                    ELSE state[i]],
                state[new_index + 1] >>

\* move(state, vertical, horizontal) -> (new_state, moved_tile) | (None, None)
move(state, vertical, horizontal) ==
    LET size == get_size(state)
        zero_index == IndexOf(state, 0)
        row == zero_index \div size
        col == zero_index % size
        new_row == row + vertical
        new_col == col + horizontal
        new_index == new_row * size + new_col
    IN  IF move_out_of_bounds(size, new_row, new_col)
        THEN <<NoneState, NoneTile>>
        ELSE << [i \in 1..Len(state) |->
                    IF i - 1 = zero_index THEN state[new_index + 1]
                    ELSE IF i - 1 = new_index THEN state[zero_index + 1]
                    ELSE state[i]],
                state[new_index + 1] >>

\* tuple(tile if tile in tiles_to_keep else 0 for tile in state)
replace_with_zeros(state, tiles_to_keep) ==
    [i \in 1..Len(state) |-> IF state[i] \in tiles_to_keep THEN state[i] ELSE 0]

RECURSIVE SumTo(_, _)
\* sum of f(1) .. f(n)
SumTo(f(_), n) == IF n = 0 THEN 0 ELSE f(n) + SumTo(f, n - 1)

\* the goal index manhattan_distance_to_win computes for a tile
md_goal_index_off_by_one(tile) == tile

md_goal_index(tile) == tile - 1

manhattan_distance_to_win(current) ==
    LET size == get_size(current)
        d(i) == LET tile == current[i]
                    goal_index == md_goal_index(tile)
                IN  IF tile = 0 THEN 0
                    ELSE Abs(((i - 1) \div size) - (goal_index \div size))
                       + Abs(((i - 1) % size) - (goal_index % size))
    IN  SumTo(d, Len(current))

\* goal.index(tile): the first index, from 0, that holds tile
index(goal, tile) ==
    (CHOOSE j \in 1..Len(goal) :
        goal[j] = tile /\ \A k \in 1..(j - 1) : goal[k] # tile) - 1

\* manhattan_distance with the blank counted like a tile
manhattan_distance_counts_blank(current, goal) ==
    LET size == get_size(current)
        d(i) == LET tile == current[i]
                    goal_index == index(goal, tile)
                IN  Abs(((i - 1) \div size) - (goal_index \div size))
                  + Abs(((i - 1) % size) - (goal_index % size))
    IN  SumTo(d, Len(current))

\* manhattan_distance(current, goal)
manhattan_distance(current, goal) ==
    LET size == get_size(current)
        d(i) == LET tile == current[i]
                    goal_index == index(goal, tile)
                IN  IF tile = 0 THEN 0
                    ELSE Abs(((i - 1) \div size) - (goal_index \div size))
                       + Abs(((i - 1) % size) - (goal_index % size))
    IN  SumTo(d, Len(current))

\* the sorted list p of is_solvable after the first n values of state, the blank left out
SeenSmaller(state, n, x) == Cardinality({j \in 1..n : state[j] # 0 /\ state[j] < x})

\* is_solvable with the blank's row left out of the sum
is_solvable_no_blank_row(state) ==
    LET term(i) == IF state[i] = 0 THEN 0
                   ELSE SeenSmaller(state, i - 1, state[i])
    IN  SumTo(term, Len(state)) % 2 = 0

\* is_solvable(state): p.index(x) after insort(p, x) is the number of
\* earlier tiles smaller than x (the values of a state are distinct)
is_solvable(state) ==
    LET size == get_size(state)
        term(i) == IF state[i] = 0 THEN (i - 1) \div size
                   ELSE SeenSmaller(state, i - 1, state[i])
    IN  SumTo(term, Len(state)) % 2 = 0

\* (size * size - 1).bit_length()
compress_attributes(size) == bit_length(size * size - 1)

RECURSIVE compress_loop(_, _, _, _)
compress_loop(state, i, bits_per_value, result) ==
    IF i > Len(state) THEN result
    ELSE compress_loop(state, i + 1, bits_per_value,
                       BitOr(Shl(result, bits_per_value), FromNat(state[i])))

\* compress(state): the values packed most significant first
compress(state) == compress_loop(state, 1, compress_attributes(get_size(state)), <<>>)

\* decompress with the shifts counted from the wrong end
decompress_shifts_reversed(n, size) ==
    LET length == size * size
        bits_per_value == compress_attributes(size)
    IN  [i \in 1..length |-> ToNat(LowBits(Shr(n, (i - 1) * bits_per_value), bits_per_value))]

\* decompress(n, size)
decompress(n, size) ==
    LET length == size * size
        bits_per_value == compress_attributes(size)
    IN  [i \in 1..length |-> ToNat(LowBits(Shr(n, (length - i) * bits_per_value), bits_per_value))]

\* _MOVE_TO_CODE
MOVE_TO_CODE(m) ==
    CASE m = <<-1, 0>> -> 0
      [] m = <<1, 0>> -> 1
      [] m = <<0, -1>> -> 2
      [] m = <<0, 1>> -> 3

\* _CODE_TO_MOVE
CODE_TO_MOVE(code) ==
    CASE code = 0 -> <<-1, 0>>
      [] code = 1 -> <<1, 0>>
      [] code = 2 -> <<0, -1>>
      [] code = 3 -> <<0, 1>>

\* the value of compressed_moves after the loop
\*   compressed_moves = (compressed_moves << 2) | code
\* over moves: move i of n (from 1) holds bits 2(n-i) and 2(n-i)+1
compress_moves_loop(ms) ==
    Norm([j \in 1..(2 * Len(ms)) |->
            LET code == MOVE_TO_CODE(ms[Len(ms) - ((j - 1) \div 2)])
            IN  IF (j - 1) % 2 = 0 THEN code % 2 ELSE code \div 2])

\* the moves packed above a length field of seven bits
compress_moves_shift7(ms) == BitOr(Shl(compress_moves_loop(ms), 7), FromNat(Len(ms)))

\* compress_moves(moves): (compressed_moves << 8) | length
compress_moves(ms) == BitOr(Shl(compress_moves_loop(ms), 8), FromNat(Len(ms)))

\* the length read from the move bits above the length byte
get_moves_length_high(packed) == ToNat(LowBits(Shr(packed, 8), 8))

\* get_moves_length(packed): packed & 0xFF
get_moves_length(packed) == ToNat(LowBits(packed, 8))

\* the moves unpacked with the last move taken from the high bits
decompress_moves_reversed(packed) ==
    LET length == ToNat(LowBits(packed, 8))
        compressed_moves == Shr(packed, 8)
    IN  [i \in 1..length |-> CODE_TO_MOVE(ToNat(LowBits(Shr(compressed_moves, (i - 1) * 2), 2)))]

\* decompress_moves(packed)
decompress_moves(packed) ==
    LET length == ToNat(LowBits(packed, 8))
        compressed_moves == Shr(packed, 8)
    IN  [i \in 1..length |-> CODE_TO_MOVE(ToNat(LowBits(Shr(compressed_moves, (length - i) * 2), 2)))]

(***************************************************************************)
(* model.py: the Puzzle object, a record of its fields                     *)
(***************************************************************************)
\* a Python str of digits, and a Python int of packed bits, as dict keys
PyStr(digits) == <<"str", digits>>
PyInt(bits) == <<"int", bits>>

\* Puzzle.DIRECTIONS = [UP, DOWN, LEFT, RIGHT]
Puzzle_DIRECTIONS == << <<1, 0>>, <<-1, 0>>, <<0, 1>>, <<0, -1>> >>

\* Puzzle.__init__(boardSize): the solved board, the blank bottom right
Puzzle_init(boardSize) ==
    [boardSize |-> boardSize,
     board |-> [i \in 1..boardSize |-> [j \in 1..boardSize |->
                  IF i = boardSize /\ j = boardSize THEN 0 ELSE (i - 1) * boardSize + (j - 1) + 1]],
     blank_position |-> <<boardSize - 1, boardSize - 1>>]

\* Puzzle.move with blank_position left as it was after the swap
Puzzle_move_stale_blank(self, direction) ==
    LET new_blank_position == <<self.blank_position[1] + direction[1],
                                self.blank_position[2] + direction[2]>>
        br == self.blank_position[1] + 1
        bc == self.blank_position[2] + 1
        nr == new_blank_position[1] + 1
        nc == new_blank_position[2] + 1
    IN  IF new_blank_position[1] < 0 \/ new_blank_position[1] >= self.boardSize
           \/ new_blank_position[2] < 0 \/ new_blank_position[2] >= self.boardSize
        THEN <<FALSE, self>>
        ELSE LET b1 == [self.board EXCEPT ![br][bc] = self.board[nr][nc]]
                 b2 == [b1 EXCEPT ![nr][nc] = 0]
             IN  <<TRUE, [self EXCEPT !.board = b2]>>

\* Puzzle.move(direction) -> <<returned bool, the object after the call>>
Puzzle_move(self, direction) ==
    LET new_blank_position == <<self.blank_position[1] + direction[1],
                                self.blank_position[2] + direction[2]>>
        br == self.blank_position[1] + 1
        bc == self.blank_position[2] + 1
        nr == new_blank_position[1] + 1
        nc == new_blank_position[2] + 1
    IN  IF new_blank_position[1] < 0 \/ new_blank_position[1] >= self.boardSize
           \/ new_blank_position[2] < 0 \/ new_blank_position[2] >= self.boardSize
        THEN <<FALSE, self>>
        ELSE LET b1 == [self.board EXCEPT ![br][bc] = self.board[nr][nc]]
                 b2 == [b1 EXCEPT ![nr][nc] = 0]
             IN  <<TRUE, [self EXCEPT !.board = b2, !.blank_position = new_blank_position]>>

\* Puzzle.simulateMove(direction): the move made on a deep copy
Puzzle_simulateMove(self, direction) == Puzzle_move(self, direction)

RECURSIVE hash_join(_, _, _)
\* ''.join(hash_string).replace('x', ''): for each value t in turn, the row and
\* the column of the cell that holds t when t is in the group, nothing otherwise
hash_join(self, group, t) ==
    IF t >= self.boardSize * self.boardSize THEN <<>>
    ELSE LET cell == CHOOSE c \in (1..self.boardSize) \X (1..self.boardSize) :
                         self.board[c[1]][c[2]] = t
         IN  (IF t \in group THEN <<cell[1] - 1, cell[2] - 1>> ELSE <<>>)
             \o hash_join(self, group, t + 1)

\* Puzzle.hash(group): a str
Puzzle_hash(self, group) ==
    LET g == IF group = {} THEN 0..(self.boardSize * self.boardSize - 1) ELSE group
    IN  PyStr(hash_join(self, g, 0))

(***************************************************************************)
(* pattern_db.py                                                           *)
(***************************************************************************)
\* the root of the search with its move counter one too high
start_puzzle_count_one(size) ==
    LET puzzle == Puzzle_init(size)
    IN  [boardSize |-> puzzle.boardSize, board |-> puzzle.board,
         blank_position |-> puzzle.blank_position, count |-> 1]

\* build_pattern_database, lines 43-44: the solved puzzle, its new attribute
\* count set to 0
start_puzzle(size) ==
    LET puzzle == Puzzle_init(size)
    IN  [boardSize |-> puzzle.boardSize, board |-> puzzle.board,
         blank_position |-> puzzle.blank_position, count |-> 0]

\* visit_node storing the current count whatever the entry holds
visit_node_store_overwrite(closed, group_hash, count) ==
    [k \in DOMAIN closed \cup {group_hash} |-> IF k = group_hash THEN count ELSE closed[k]]

\* visit_node storing a pattern only when it is reached without a move of a
\* group tile
visit_node_store_free_only(closed, group_hash, count) ==
    IF group_hash \notin DOMAIN closed /\ count = 0
    THEN [k \in DOMAIN closed \cup {group_hash} |-> IF k = group_hash THEN count ELSE closed[k]]
    ELSE closed

\* visit_node, lines 122-128: the count stored for a new pattern, or for one
\* whose entry is larger
visit_node_store(closed, group_hash, count) ==
    IF group_hash \notin DOMAIN closed
    THEN [k \in DOMAIN closed \cup {group_hash} |-> IF k = group_hash THEN count ELSE closed[k]]
    ELSE IF closed[group_hash] > count
    THEN [closed EXCEPT ![group_hash] = count]
    ELSE closed

\* visit_node(puzzle, visited, closed_list, group_with_blank, group)
\*   -> <<returned bool, visited after, closed_list after>>
visit_node(puzzle, vis, closed, group_with_blank, group) ==
    LET puzzle_hash_with_blank == Puzzle_hash(puzzle, group_with_blank)
    IN  IF puzzle_hash_with_blank \in vis
        THEN <<FALSE, vis, closed>>
        ELSE <<TRUE, vis \cup {puzzle_hash_with_blank},
               visit_node_store(closed, Puzzle_hash(puzzle, group), puzzle.count)>>

RECURSIVE expand(_, _, _, _, _)
\* the for loop of build_pattern_database over puzzle.DIRECTIONS, from
\* direction i on: the queue with the successors appended
expand(current_puzzle, previous_move, group, i, queue) ==
    IF i > Len(Puzzle_DIRECTIONS) THEN queue
    ELSE LET direction == Puzzle_DIRECTIONS[i]
             sim == Puzzle_simulateMove(current_puzzle, direction)
             next_puzzle == sim[2]
             moved == next_puzzle.board[current_puzzle.blank_position[1] + 1]
                                       [current_puzzle.blank_position[2] + 1]
             counted == IF moved \in group
                        THEN [next_puzzle EXCEPT !.count = next_puzzle.count + 1]
                        ELSE next_puzzle
         IN  IF direction = previous_move \/ ~sim[1]
             THEN expand(current_puzzle, previous_move, group, i + 1, queue)
             ELSE expand(current_puzzle, previous_move, group, i + 1,
                         Append(queue, <<counted, <<-direction[1], -direction[2]>>>>))

RECURSIVE Chunks(_, _, _)
\* the tiles from..last in groups of k consecutive tiles
Chunks(from, last, k) ==
    IF from > last THEN <<>>
    ELSE <<from..(IF from + k - 1 < last THEN from + k - 1 ELSE last)>> \o Chunks(from + k, last, k)

\* main: tile_groups, for the board size the run is for
TileGroups(size) == Chunks(1, size * size - 1, GroupSize)

NoFile == <<>>

BuildInit ==
    /\ pc = "main"
    /\ board_size \in BuildSizes
    /\ tile_groups = TileGroups(board_size)
    /\ group_number = 1
    /\ open_list = <<>>
    /\ visited = {}
    /\ closed_list = <<>>
    /\ built = <<>>
    /\ db_file = [n \in BuildSizes |-> NoFile]

\* build_pattern_database, lines 42-62: the structures, the goal in the queue
BuildStart ==
    /\ pc = "main"
    /\ group_number <= Len(tile_groups)
    /\ open_list' = << <<start_puzzle(board_size), <<0, 0>>>> >>
    /\ visited' = {}
    /\ closed_list' = <<>>
    /\ pc' = "bfs"
    /\ UNCHANGED <<board_size, tile_groups, group_number, built, db_file>>
    /\ UNCHANGED <<matrixVars, solveVars>>

\* one turn of the while loop of build_pattern_database
BuildStep ==
    /\ pc = "bfs"
    /\ open_list # <<>>
    /\ LET group == tile_groups[group_number]
           current_puzzle == Head(open_list)[1]
           previous_move == Head(open_list)[2]
           v == visit_node(current_puzzle, visited, closed_list, group \cup {0}, group)
       IN  /\ visited' = v[2]
           /\ closed_list' = v[3]
           /\ open_list' = IF v[1]
                           THEN expand(current_puzzle, previous_move, group, 1, Tail(open_list))
                           ELSE Tail(open_list)
    /\ UNCHANGED <<pc, board_size, tile_groups, group_number, built, db_file>>
    /\ UNCHANGED <<matrixVars, solveVars>>

\* the queue is empty: build_pattern_database returns closed_list to main
BuildReturn ==
    /\ pc = "bfs"
    /\ open_list = <<>>
    /\ built' = Append(built, closed_list)
    /\ group_number' = group_number + 1
    /\ pc' = IF group_number = Len(tile_groups) THEN "dump" ELSE "main"
    /\ UNCHANGED <<board_size, tile_groups, open_list, visited, closed_list, db_file>>
    /\ UNCHANGED <<matrixVars, solveVars>>

\* main, lines 168-170: tile_groups and pattern_databases pickled into the
\* file; the builder process ends and its structures are gone
MainDump ==
    /\ pc = "dump"
    /\ db_file' = [db_file EXCEPT ![board_size] = <<tile_groups, built>>]
    /\ pc' = "idle"
    /\ visited' = {}
    /\ closed_list' = <<>>
    /\ built' = <<>>
    /\ UNCHANGED <<board_size, tile_groups, group_number, open_list>>
    /\ UNCHANGED <<matrixVars, solveVars>>

(***************************************************************************)
(* calculate.py: the move order of the solver                              *)
(***************************************************************************)
\* DIRECTIONS = [(1,0), (-1,0), (0,1), (0,-1)]
DIRECTIONS == << <<1, 0>>, <<-1, 0>>, <<0, 1>>, <<0, -1>> >>

\* INFINITY = 100000
INFINITY == 100000

\* a dict whose iteration order is its insertion order: a sequence of <<key, value>>
dict_has(d, k) == \E i \in 1..Len(d) : d[i][1] = k

RECURSIVE dict_del(_, _)
\* del d[k]
dict_del(d, k) ==
    IF d = <<>> THEN <<>>
    ELSE IF Head(d)[1] = k THEN Tail(d) ELSE <<Head(d)>> \o dict_del(Tail(d), k)

\* d[k] = v: a key already present keeps its place
dict_set(d, k, v) ==
    IF dict_has(d, k)
    THEN [i \in 1..Len(d) |-> IF d[i][1] = k THEN <<k, v>> ELSE d[i]]
    ELSE Append(d, <<k, v>>)

\* the heuristic of one group with the fallback taken on the whole state
group_heuristic_whole_state(group, database, s) ==
    LET pattern_state == replace_with_zeros(s, group)
        group_hash == PyInt(compress(pattern_state))
    IN  IF group_hash \in DOMAIN database
        THEN database[group_hash]
        ELSE manhattan_distance_to_win(s)

\* the heuristic of one group: the database entry of the pattern's key, or
\* the Manhattan distance of the pattern when the key is not in the database
group_heuristic(group, database, s) ==
    LET pattern_state == replace_with_zeros(s, group)
        group_hash == PyInt(compress(pattern_state))
    IN  IF group_hash \in DOMAIN database
        THEN database[group_hash]
        ELSE manhattan_distance_to_win(pattern_state)

\* the heuristic of a partition that covers no tile
calculate_heuristic_no_tiles(groups, databases, s) == 0

\* the heuristic counted twice
calculate_heuristic_doubled(groups, databases, s) ==
    LET h(i) == group_heuristic(groups[i], databases[i], s)
    IN  2 * SumTo(h, Len(groups))

\* calculate_heuristic(state), reading the two globals
calculate_heuristic(groups, databases, s) ==
    LET h(i) == group_heuristic(groups[i], databases[i], s)
    IN  SumTo(h, Len(groups))

\* what a call of search returns: an int, or True (which Python compares
\* equal to the int 1)
RetInt(v) == [val |-> v, is_bool |-> FALSE]
RetTrue == [val |-> 1, is_bool |-> TRUE]

\* search_result == True
EqualsTrue(r) == r.val = 1

\* what a call of ida_star returns: a move list, or None; or the error it raises
Moves(ms) == [kind |-> "moves", moves |-> ms]
ReturnsNone == [kind |-> "None", moves |-> <<>>]
Raises == [kind |-> "error", moves |-> <<>>]

Last(seq) == seq[Len(seq)]
Front(seq) == SubSeq(seq, 1, Len(seq) - 1)
\* a membership test that finds nothing
InSeq_never(x, seq) == FALSE
InSeq(x, seq) == \E i \in 1..Len(seq) : seq[i] = x

\* a frame of search: its depth argument and its locals
Frame(depth) == [depth |-> depth, at |-> "enter", dir |-> 1, minimum_cost |-> INFINITY]

\* the lists the running search was handed: the driver's own on the search
\* from the initial state, those of the scanned node otherwise
SearchPath == IF pc = "search" THEN path ELSE frontier_path
SearchMoves == IF pc = "search" THEN move_sequence ELSE moves

Searching == pc \in {"search", "scan_search"} /\ stack # <<>>

Tick == clock < MaxSteps /\ clock' = clock + 1

\* the inputs of the solver for a board size: every permutation of the 2x2
\* board (half of them unsolvable; the search exhausts their 12 states), and
\* the 3x3 states at most MaxScramble moves from the goal
RECURSIVE Within(_, _)
Within(S, k) ==
    IF k = 0 THEN S
    ELSE Within(S \cup {r[1] : r \in {rr \in {move(c, DIRECTIONS[i][1], DIRECTIONS[i][2]) : c \in S, i \in 1..4} :
                                          rr[1] # NoneState}}, k - 1)

Permutations4 ==
    {p \in [1..4 -> 0..3] : \A i, j \in 1..4 : i # j => p[i] # p[j]}

StartStatesBySize ==
    [size \in BuildSizes |->
        IF size = 2 THEN Permutations4 ELSE Within({get_win(size)}, MaxScramble)]

StartStates(size) == StartStatesBySize[size]

SolverOff ==
    /\ pattern_groups = <<>>
    /\ pattern_databases = <<>>
    /\ ida_state = <<>>
    /\ use_frontier = FALSE
    /\ bound = 0
    /\ path = <<>>
    /\ move_sequence = <<>>
    /\ frontier = <<>>
    /\ snapshot = <<>>
    /\ scan_index = 0
    /\ min_exceeded = 0
    /\ frontier_path = <<>>
    /\ moves = <<>>
    /\ stack = <<>>
    /\ ret = RetInt(0)
    /\ returned = <<>>
    /\ clock = 0

scanVars == <<snapshot, scan_index, min_exceeded, frontier_path, moves>>
callVars == <<ida_state, use_frontier>>
globalVars == <<pattern_groups, pattern_databases>>

\* ida_star with init called before the goal test
ida_star_entry_init_first(s, databases, file) ==
    IF databases = <<>> /\ file = NoFile THEN "raise"
    ELSE IF s = get_win(get_size(s)) THEN "return"
    ELSE "search"

\* ida_star with the error of init swallowed and the empty list returned
ida_star_entry_error_swallowed(s, databases, file) ==
    IF s = get_win(get_size(s)) \/ (databases = <<>> /\ file = NoFile) THEN "return"
    ELSE "search"

\* ida_star, lines 52-60: the way a call leaves its first lines: it returns
\* [] on the goal, else init raises when no database is loaded and the file
\* of the board size is missing, else the search is set up
ida_star_entry(s, databases, file) ==
    IF s = get_win(get_size(s)) THEN "return"
    ELSE IF databases = <<>> /\ file = NoFile THEN "raise"
    ELSE "search"

\* ida_star(state, use_frontier), lines 52-66: the goal test, init when no
\* database is loaded, the first bound
IdaCall(s, uf) ==
    /\ pc = "idle"
    /\ LET size == get_size(s)
           load == pattern_databases = <<>>
           entry == ida_star_entry(s, pattern_databases, db_file[size])
           groups == IF load THEN db_file[size][1] ELSE pattern_groups
           databases == IF load THEN db_file[size][2] ELSE pattern_databases
       IN  CASE entry = "return" ->
                /\ returned' = Append(returned, [state |-> s, use_frontier |-> uf, result |-> Moves(<<>>)])
                /\ UNCHANGED <<pc, globalVars, callVars, bound, path, move_sequence, frontier>>
             [] entry = "raise" ->
                /\ returned' = Append(returned, [state |-> s, use_frontier |-> uf, result |-> Raises])
                /\ UNCHANGED <<pc, globalVars, callVars, bound, path, move_sequence, frontier>>
             [] entry = "search" ->
                /\ pattern_groups' = groups
                /\ pattern_databases' = databases
                /\ ida_state' = s
                /\ use_frontier' = uf
                /\ bound' = calculate_heuristic(groups, databases, s)
                /\ path' = <<s>>
                /\ move_sequence' = <<>>
                /\ frontier' = <<>>
                /\ pc' = "loop"
                /\ UNCHANGED returned
    /\ clock' = 0
    /\ UNCHANGED <<scanVars, stack, ret>>
    /\ UNCHANGED <<matrixVars, buildVars>>

\* a call of ida_star by the caller, on a state of the board size the
\* database file was built for.  The first call of the process is on any
\* input; the second is on the same state with the other setting.
IdaStar ==
    /\ pc = "idle"
    /\ \E s \in StartStates(board_size), uf \in BOOLEAN :
          /\ \/ returned = <<>>
             \/ Len(returned) = 1 /\ s = returned[1].state /\ uf = ~returned[1].use_frontier
          /\ IdaCall(s, uf)

\* the value ida_star returns, handed to the caller
Return(result) ==
    /\ returned' = Append(returned, [state |-> ida_state, use_frontier |-> use_frontier, result |-> result])
    /\ pc' = "idle"

\* the bound raised whatever the result
CheckResult_always_raises(result) ==
    bound' = result /\ pc' = "loop" /\ UNCHANGED returned

\* the loop begun again with the bound it had
CheckResult_keeps_bound(result) ==
    IF result = INFINITY
    THEN Return(ReturnsNone) /\ UNCHANGED bound
    ELSE bound' = bound /\ pc' = "loop" /\ UNCHANGED returned

\* lines 121-127: None when the result is INFINITY, else the bound is raised
CheckResult(result) ==
    IF result = INFINITY
    THEN Return(ReturnsNone) /\ UNCHANGED bound
    ELSE bound' = result /\ pc' = "loop" /\ UNCHANGED returned

\* the head of the while loop, lines 68-75 and 114-116: a scan of the
\* frontier is begun, or search is called on the initial state
DriverLoop ==
    /\ pc = "loop"
    /\ Tick
    /\ IF use_frontier /\ frontier # <<>>
       THEN /\ min_exceeded' = INFINITY
            /\ snapshot' = frontier
            /\ scan_index' = 1
            /\ pc' = "scan"
            /\ UNCHANGED stack
       ELSE /\ stack' = <<Frame(0)>>
            /\ pc' = "search"
            /\ UNCHANGED <<min_exceeded, snapshot, scan_index>>
    /\ UNCHANGED <<globalVars, callVars, bound, path, move_sequence, frontier,
                   frontier_path, moves, ret, returned>>
    /\ UNCHANGED <<matrixVars, buildVars>>

\* the scan without the test of line 85: every entry of the snapshot within
\* the bound is searched from
ScanStep_no_recheck ==
    /\ pc = "scan"
    /\ Tick
    /\ IF scan_index > Len(snapshot)
       THEN /\ CheckResult(min_exceeded)
            /\ UNCHANGED <<frontier, scan_index, min_exceeded, frontier_path, moves, stack>>
       ELSE LET state_key == snapshot[scan_index][1]
                packed_moves == snapshot[scan_index][2]
                current == decompress(state_key, get_size(ida_state))
                depth == get_moves_length(packed_moves)
                cost == depth + calculate_heuristic(pattern_groups, pattern_databases, current)
            IN  IF cost <= bound
                THEN /\ frontier' = dict_del(frontier, state_key)
                     /\ moves' = decompress_moves(packed_moves)
                     /\ frontier_path' = <<current>>
                     /\ stack' = <<Frame(Len(decompress_moves(packed_moves)))>>
                     /\ pc' = "scan_search"
                     /\ UNCHANGED <<bound, returned, scan_index, min_exceeded>>
                ELSE /\ min_exceeded' = IF cost < min_exceeded THEN cost ELSE min_exceeded
                     /\ scan_index' = scan_index + 1
                     /\ UNCHANGED <<pc, bound, returned, frontier, frontier_path, moves, stack>>
    /\ UNCHANGED <<globalVars, callVars, path, move_sequence, snapshot, ret>>
    /\ UNCHANGED <<matrixVars, buildVars>>

\* one turn of the for loop over the snapshot, lines 75-99 and 107-110, up
\* to the call of search; after the last entry, lines 113 and 121-127
ScanStep ==
    /\ pc = "scan"
    /\ Tick
    /\ IF scan_index > Len(snapshot)
       THEN /\ CheckResult(min_exceeded)
            /\ UNCHANGED <<frontier, scan_index, min_exceeded, frontier_path, moves, stack>>
       ELSE LET state_key == snapshot[scan_index][1]
                packed_moves == snapshot[scan_index][2]
                current == decompress(state_key, get_size(ida_state))
                depth == get_moves_length(packed_moves)
                cost == depth + calculate_heuristic(pattern_groups, pattern_databases, current)
            IN  IF cost <= bound
                THEN IF ~dict_has(frontier, state_key)
                     THEN /\ scan_index' = scan_index + 1
                          /\ UNCHANGED <<pc, bound, returned, frontier, min_exceeded,
                                         frontier_path, moves, stack>>
                     ELSE /\ frontier' = dict_del(frontier, state_key)
                          /\ moves' = decompress_moves(packed_moves)
                          /\ frontier_path' = <<current>>
                          /\ stack' = <<Frame(Len(decompress_moves(packed_moves)))>>
                          /\ pc' = "scan_search"
                          /\ UNCHANGED <<bound, returned, scan_index, min_exceeded>>
                ELSE /\ min_exceeded' = IF cost < min_exceeded THEN cost ELSE min_exceeded
                     /\ scan_index' = scan_index + 1
                     /\ UNCHANGED <<pc, bound, returned, frontier, frontier_path, moves, stack>>
    /\ UNCHANGED <<globalVars, callVars, path, move_sequence, snapshot, ret>>
    /\ UNCHANGED <<matrixVars, buildVars>>

\* search returned to the scan, lines 101-106
ScanReturn ==
    /\ pc = "scan_search"
    /\ stack = <<>>
    /\ Tick
    /\ IF EqualsTrue(ret)
       THEN /\ Return(Moves(moves))
            /\ UNCHANGED <<min_exceeded, scan_index>>
       ELSE /\ min_exceeded' = IF ret.val < min_exceeded THEN ret.val ELSE min_exceeded
            /\ scan_index' = scan_index + 1
            /\ pc' = "scan"
            /\ UNCHANGED returned
    /\ UNCHANGED <<globalVars, callVars, bound, path, move_sequence, frontier, snapshot,
                   frontier_path, moves, stack, ret>>
    /\ UNCHANGED <<matrixVars, buildVars>>

\* search returned to the driver, lines 116-127
RootReturn ==
    /\ pc = "search"
    /\ stack = <<>>
    /\ Tick
    /\ IF EqualsTrue(ret)
       THEN Return(Moves(move_sequence)) /\ UNCHANGED bound
       ELSE CheckResult(ret.val)
    /\ UNCHANGED <<globalVars, callVars, path, move_sequence, frontier, scanVars, stack, ret>>
    /\ UNCHANGED <<matrixVars, buildVars>>

\* the lists of the running search replaced by p and ms
SetSearchLists(p, ms) ==
    /\ path' = IF pc = "search" THEN p ELSE path
    /\ move_sequence' = IF pc = "search" THEN ms ELSE move_sequence
    /\ frontier_path' = IF pc = "search" THEN frontier_path ELSE p
    /\ moves' = IF pc = "search" THEN moves ELSE ms

\* the record search makes of a node over the bound, lines 144-146
search_record(fr, current_state, ms) ==
    dict_set(fr, compress(current_state), compress_moves(ms))

\* search with the goal test made before the bound test
SearchEnter_goal_first ==
    /\ Searching
    /\ Last(stack).at = "enter"
    /\ Tick
    /\ LET current_state == Last(SearchPath)
           cost == Last(stack).depth
                   + calculate_heuristic(pattern_groups, pattern_databases, current_state)
       IN  IF current_state = get_win(get_size(current_state))
           THEN /\ ret' = RetTrue
                /\ stack' = Front(stack)
                /\ UNCHANGED frontier
           ELSE IF cost > bound
           THEN /\ frontier' = search_record(frontier, current_state, SearchMoves)
                /\ ret' = RetInt(cost)
                /\ stack' = Front(stack)
           ELSE /\ stack' = [stack EXCEPT ![Len(stack)].at = "loop"]
                /\ UNCHANGED <<frontier, ret>>
    /\ UNCHANGED <<pc, globalVars, callVars, bound, path, move_sequence, snapshot, scan_index,
                   min_exceeded, frontier_path, moves, returned>>
    /\ UNCHANGED <<matrixVars, buildVars>>

\* search, lines 137-155: the bound test, then the goal test
SearchEnter ==
    /\ Searching
    /\ Last(stack).at = "enter"
    /\ Tick
    /\ LET current_state == Last(SearchPath)
           cost == Last(stack).depth
                   + calculate_heuristic(pattern_groups, pattern_databases, current_state)
       IN  IF cost > bound
           THEN /\ frontier' = search_record(frontier, current_state, SearchMoves)
                /\ ret' = RetInt(cost)
                /\ stack' = Front(stack)
           ELSE IF current_state = get_win(get_size(current_state))
           THEN /\ ret' = RetTrue
                /\ stack' = Front(stack)
                /\ UNCHANGED frontier
           ELSE /\ stack' = [stack EXCEPT ![Len(stack)].at = "loop"]
                /\ UNCHANGED <<frontier, ret>>
    /\ UNCHANGED <<pc, globalVars, callVars, bound, path, move_sequence, snapshot, scan_index,
                   min_exceeded, frontier_path, moves, returned>>
    /\ UNCHANGED <<matrixVars, buildVars>>

\* search without the test of line 160
is_reverse_never(direction, ms) == FALSE

\* the test of line 160: the direction undoes the last move of move_sequence
is_reverse(direction, ms) ==
    ms # <<>> /\ <<-direction[1], -direction[2]>> = Last(ms)

\* search, lines 158-178: one direction of the for loop, up to the recursive
\* call; after the last direction, line 191
SearchTry ==
    /\ Searching
    /\ Last(stack).at = "loop"
    /\ Tick
    /\ LET top == Last(stack)
           skip == [stack EXCEPT ![Len(stack)].dir = top.dir + 1]
       IN  IF top.dir > Len(DIRECTIONS)
           THEN /\ ret' = RetInt(top.minimum_cost)
                /\ stack' = Front(stack)
                /\ UNCHANGED <<frontier, path, move_sequence, frontier_path, moves>>
           ELSE LET direction == DIRECTIONS[top.dir]
                    next_state == move(Last(SearchPath), direction[1], direction[2])[1]
                IN  IF is_reverse(direction, SearchMoves)
                       \/ next_state = NoneState
                       \/ InSeq(next_state, SearchPath)
                    THEN /\ stack' = skip
                         /\ UNCHANGED <<frontier, ret, path, move_sequence, frontier_path, moves>>
                    ELSE /\ frontier' = dict_del(frontier, compress(next_state))
                         /\ SetSearchLists(Append(SearchPath, next_state),
                                           Append(SearchMoves, direction))
                         /\ stack' = Append([stack EXCEPT ![Len(stack)].at = "wait"],
                                            Frame(top.depth + 1))
                         /\ UNCHANGED ret
    /\ UNCHANGED <<pc, globalVars, callVars, bound, snapshot, scan_index, min_exceeded, returned>>
    /\ UNCHANGED <<matrixVars, buildVars>>

\* search without the pops of lines 187-189
SearchResume_no_pop ==
    /\ Searching
    /\ Last(stack).at = "wait"
    /\ Tick
    /\ LET top == Last(stack)
       IN  IF EqualsTrue(ret)
           THEN /\ ret' = RetTrue
                /\ stack' = Front(stack)
                /\ UNCHANGED <<path, move_sequence, frontier_path, moves>>
           ELSE /\ stack' = [stack EXCEPT ![Len(stack)] =
                                [top EXCEPT !.at = "loop", !.dir = top.dir + 1,
                                            !.minimum_cost = IF ret.val < top.minimum_cost
                                                             THEN ret.val ELSE top.minimum_cost]]
                /\ UNCHANGED <<ret, path, move_sequence, frontier_path, moves>>
    /\ UNCHANGED <<pc, globalVars, callVars, bound, frontier, snapshot, scan_index,
                   min_exceeded, returned>>
    /\ UNCHANGED <<matrixVars, buildVars>>

\* search keeping the cost its last recursive call returned
SearchResume_keeps_last ==
    /\ Searching
    /\ Last(stack).at = "wait"
    /\ Tick
    /\ LET top == Last(stack)
       IN  IF EqualsTrue(ret)
           THEN /\ ret' = RetTrue
                /\ stack' = Front(stack)
                /\ UNCHANGED <<path, move_sequence, frontier_path, moves>>
           ELSE /\ stack' = [stack EXCEPT ![Len(stack)] =
                                [top EXCEPT !.at = "loop", !.dir = top.dir + 1,
                                            !.minimum_cost = ret.val]]
                /\ SetSearchLists(Front(SearchPath), Front(SearchMoves))
                /\ UNCHANGED ret
    /\ UNCHANGED <<pc, globalVars, callVars, bound, frontier, snapshot, scan_index,
                   min_exceeded, returned>>
    /\ UNCHANGED <<matrixVars, buildVars>>

\* search, lines 180-189: the recursive call returned
SearchResume ==
    /\ Searching
    /\ Last(stack).at = "wait"
    /\ Tick
    /\ LET top == Last(stack)
       IN  IF EqualsTrue(ret)
           THEN /\ ret' = RetTrue
                /\ stack' = Front(stack)
                /\ UNCHANGED <<path, move_sequence, frontier_path, moves>>
           ELSE /\ stack' = [stack EXCEPT ![Len(stack)] =
                                [top EXCEPT !.at = "loop", !.dir = top.dir + 1,
                                            !.minimum_cost = IF ret.val < top.minimum_cost
                                                             THEN ret.val ELSE top.minimum_cost]]
                /\ SetSearchLists(Front(SearchPath), Front(SearchMoves))
                /\ UNCHANGED ret
    /\ UNCHANGED <<pc, globalVars, callVars, bound, frontier, snapshot, scan_index,
                   min_exceeded, returned>>
    /\ UNCHANGED <<matrixVars, buildVars>>

(***************************************************************************)
(* A caller of matrix.py: a walk of unit moves from the goal, or from the  *)
(* goal with its last two tiles exchanged, and move calls with any         *)
(* displacement.                                                           *)
(***************************************************************************)
SwappedWin(size) ==
    [i \in 1..(size * size) |->
        IF i = size * size - 2 THEN size * size - 1
        ELSE IF i = size * size - 1 THEN size * size - 2
        ELSE get_win(size)[i]]

NoCall == [state |-> <<>>, vertical |-> 0, horizontal |-> 0]

\* no function called on its own
NoThread == <<>>

\* no function called on its own, one thread
UnitOff ==
    /\ f_call = [fn |-> "none", arg |-> <<>>]
    /\ f_ret = <<>>
    /\ t_saved = NoThread

MatrixInit ==
    /\ m_root \in {get_win(n) : n \in 2..MaxSize} \cup {SwappedWin(n) : n \in 2..MaxSize}
    /\ m_state = m_root
    /\ m_steps = 0
    /\ m_call = NoCall
    /\ m_ret = <<NoneState, NoneTile>>
    /\ UnitOff

\* the other processes, not started
Idle ==
    /\ pc = "off"
    /\ board_size = 0
    /\ tile_groups = <<>>
    /\ group_number = 0
    /\ open_list = <<>>
    /\ visited = {}
    /\ closed_list = <<>>
    /\ built = <<>>
    /\ db_file = <<>>
    /\ SolverOff

\* new_state, tile = move(state, dr, dc) with a unit step; the walk goes on from new_state
MatrixUnitMove(i) ==
    /\ m_steps < MaxWalk
    /\ LET d == DIRECTIONS[i]
           r == move(m_state, d[1], d[2])
       IN  /\ m_call' = [state |-> m_state, vertical |-> d[1], horizontal |-> d[2]]
           /\ m_ret' = r
           /\ m_state' = IF r[1] = NoneState THEN m_state ELSE r[1]
    /\ m_steps' = m_steps + 1
    /\ UNCHANGED <<m_root, f_call, f_ret, t_saved, pc, buildVars, solveVars>>

\* move(state, vertical, horizontal) with any displacement; the result is only looked at
MatrixMoveCall(v, h) ==
    /\ Abs(v) + Abs(h) # 1
    /\ m_call' = [state |-> m_state, vertical |-> v, horizontal |-> h]
    /\ m_ret' = move(m_state, v, h)
    /\ UNCHANGED <<m_root, m_state, m_steps, f_call, f_ret, t_saved, pc, buildVars, solveVars>>

MatrixNext ==
    \/ \E i \in 1..4 : MatrixUnitMove(i)
    \/ \E v \in (-MaxStep)..MaxStep, h \in (-MaxStep)..MaxStep : MatrixMoveCall(v, h)

InitMatrix == MatrixInit /\ Idle

SpecMatrix == InitMatrix /\ [][MatrixNext]_vars

----------------------------------------------------------------------------
\* The functions of matrix.py and calculate.py called on their own, one call
\* in a run, as the unit tests call them.

\* the tuple-board walk, not started
MatrixOff ==
    /\ m_root = <<>>
    /\ m_state = <<>>
    /\ m_steps = 0
    /\ m_call = NoCall
    /\ m_ret = <<NoneState, NoneTile>>
    /\ UnitOff

\* the tuples the codec is called on: every 2x2 tuple of values 0..3, the 1x1
\* board, and for the larger sizes the states near the goal, their patterns
\* for each tile group, and the tuples of one repeated value
CodecInputs ==
    [1..4 -> 0..3] \cup {<<0>>}
    \cup UNION {LET near == Within({get_win(size)}, MaxWalk)
                    groups == TileGroups(size)
                IN  near
                    \cup {replace_with_zeros(s, groups[g]) : s \in near, g \in 1..Len(groups)}
                    \cup {[i \in 1..(size * size) |-> v] : v \in 0..(size * size - 1)}
               : size \in 3..MaxSize}

\* packed = compress(state); decompress(packed, get_size(state))
UnitCodec(s) ==
    /\ pc = "off"
    /\ f_call.fn = "none"
    /\ f_call' = [fn |-> "compress", arg |-> s]
    /\ f_ret' = [packed |-> compress(s), state |-> decompress(compress(s), get_size(s))]
    /\ UNCHANGED <<m_root, m_state, m_steps, m_call, m_ret, t_saved, pc, buildVars, solveVars>>

\* the move lists the move codec is called on: every list of up to MaxMoves
\* moves, and long lists of one repeated move or of the four moves in turn
MoveInputs ==
    UNION {[1..n -> {DIRECTIONS[i] : i \in 1..4}] : n \in 0..MaxMoves}
    \cup {[i \in 1..n |-> DIRECTIONS[d]] : n \in LongLengths, d \in 1..4}
    \cup {[i \in 1..n |-> DIRECTIONS[((i + d) % 4) + 1]] : n \in LongLengths, d \in 1..4}

\* packed = compress_moves(moves); get_moves_length(packed); decompress_moves(packed)
UnitMoves(ms) ==
    /\ pc = "off"
    /\ f_call.fn = "none"
    /\ f_call' = [fn |-> "compress_moves", arg |-> ms]
    /\ f_ret' = [packed |-> compress_moves(ms),
                 length |-> get_moves_length(compress_moves(ms)),
                 moves |-> decompress_moves(compress_moves(ms))]
    /\ UNCHANGED <<m_root, m_state, m_steps, m_call, m_ret, t_saved, pc, buildVars, solveVars>>

\* the states is_solvable is called on: for each size up to the 15-puzzle's,
\* the goal, the goal with its last two tiles swapped, and the states within
\* MaxWalk moves of either
SolvableInputs ==
    UNION {Within({get_win(size), SwappedWin(size)}, MaxWalk) : size \in 2..(MaxSize + 1)}

\* is_solvable(state)
UnitSolvable(s) ==
    /\ pc = "off"
    /\ f_call.fn = "none"
    /\ f_call' = [fn |-> "is_solvable", arg |-> s]
    /\ f_ret' = is_solvable(s)
    /\ UNCHANGED <<m_root, m_state, m_steps, m_call, m_ret, t_saved, pc, buildVars, solveVars>>

\* the states calculate_heuristic is called on
HeuristicInputs == UNION {Within({get_win(size)}, MaxWalk) : size \in 3..MaxSize}

\* the key calculate_heuristic looks up for a group
pattern_key(s, group) == PyInt(compress(replace_with_zeros(s, group)))

\* calculate_heuristic(state) with pattern_groups the partition of the board
\* and pattern_databases set by the caller: the database of a group in
\* `present` holds the state's pattern with the cost base + group index, the
\* database of any other group holds at most the goal's pattern
UnitHeuristic(s, present, base) ==
    LET groups == TileGroups(get_size(s))
        databases ==
            [i \in 1..Len(groups) |->
                IF i \in present
                THEN [k \in {pattern_key(s, groups[i])} |-> base + i]
                ELSE [k \in {pattern_key(get_win(get_size(s)), groups[i])}
                               \ {pattern_key(s, groups[i])} |-> 0]]
    IN  /\ pc = "off"
        /\ f_call.fn = "none"
        /\ f_call' = [fn |-> "calculate_heuristic",
                      arg |-> [state |-> s, present |-> present, base |-> base,
                               pattern_groups |-> groups, pattern_databases |-> databases]]
        /\ f_ret' = calculate_heuristic(groups, databases, s)
        /\ UNCHANGED <<m_root, m_state, m_steps, m_call, m_ret, t_saved, pc, buildVars, solveVars>>

UnitNext ==
    \/ \E s \in CodecInputs : UnitCodec(s)
    \/ \E s \in HeuristicInputs, base \in DbBases :
          \E present \in SUBSET (1..Len(TileGroups(get_size(s)))) : UnitHeuristic(s, present, base)
    \/ \E s \in SolvableInputs : UnitSolvable(s)
    \/ \E ms \in MoveInputs : UnitMoves(ms)

InitUnit == MatrixOff /\ Idle

SpecUnit == InitUnit /\ [][UnitNext]_vars

Init == MatrixOff /\ BuildInit /\ SolverOff

\* a process that calls ida_star where pattern_db.py never ran: no database
\* file of any board size exists
InitNoFile ==
    /\ MatrixOff
    /\ pc = "idle"
    /\ board_size \in BuildSizes
    /\ tile_groups = <<>>
    /\ group_number = 0
    /\ open_list = <<>>
    /\ visited = {}
    /\ closed_list = <<>>
    /\ built = <<>>
    /\ db_file = [n \in BuildSizes |-> NoFile]
    /\ SolverOff

Next ==
    \/ BuildStart
    \/ BuildStep
    \/ BuildReturn
    \/ MainDump
    \/ IdaStar
    \/ DriverLoop
    \/ ScanStep
    \/ ScanReturn
    \/ RootReturn
    \/ SearchEnter
    \/ SearchTry
    \/ SearchResume

Spec == Init /\ [][Next]_vars

NextNoFile == IdaStar

(***************************************************************************)
(* Two threads of one process, each in a call of ida_star.  One thread runs *)
(* at a time (the interpreter lock); the locals of the other are in        *)
(* t_saved.  The module globals pattern_groups and pattern_databases are   *)
(* shared.  A thread is preempted between the steps of the solver and      *)
(* between the lines of ida_star and init that read or assign a global.    *)
(***************************************************************************)
\* frontier = {} of line 66 is a local of the call: a thread that resumes
\* finds its own frontier, not the one of the thread that ran meanwhile
own_frontier_shared(saved, current) == current

own_frontier(saved, current) == saved

\* the locals of the running call of ida_star and of its search calls
thread_locals ==
    [pc |-> pc, ida_state |-> ida_state, use_frontier |-> use_frontier, bound |-> bound,
     path |-> path, move_sequence |-> move_sequence, frontier |-> frontier,
     snapshot |-> snapshot, scan_index |-> scan_index, min_exceeded |-> min_exceeded,
     frontier_path |-> frontier_path, moves |-> moves, stack |-> stack, ret |-> ret,
     clock |-> clock]

\* the locals of a call of ida_star(s, uf) that has not run its first line
new_thread(s, uf) ==
    [pc |-> "t_call", ida_state |-> s, use_frontier |-> uf, bound |-> 0,
     path |-> <<>>, move_sequence |-> <<>>, frontier |-> <<>>,
     snapshot |-> <<>>, scan_index |-> 0, min_exceeded |-> 0,
     frontier_path |-> <<>>, moves |-> <<>>, stack |-> <<>>, ret |-> RetInt(0),
     clock |-> 0]

\* the thread with locals l runs
Resume(l) ==
    /\ pc' = l.pc
    /\ ida_state' = l.ida_state
    /\ use_frontier' = l.use_frontier
    /\ bound' = l.bound
    /\ path' = l.path
    /\ move_sequence' = l.move_sequence
    /\ frontier' = own_frontier(l.frontier, frontier)
    /\ snapshot' = l.snapshot
    /\ scan_index' = l.scan_index
    /\ min_exceeded' = l.min_exceeded
    /\ frontier_path' = l.frontier_path
    /\ moves' = l.moves
    /\ stack' = l.stack
    /\ ret' = l.ret
    /\ clock' = l.clock

\* a state whose first bound is below its distance from the goal, so that
\* its solve raises the bound and, with the frontier, runs a scan
ScanInputs == { <<1, 2, 3, 7, 4, 6, 5, 8, 0>> }

\* the inputs of the two solves
ThreadInputsBySize ==
    [size \in BuildSizes |->
        Within({get_win(size)}, MaxThreadScramble)
        \cup {s \in ScanInputs : get_size(s) = size}]

\* the two solves run one after the other, by one thread
SeqCall ==
    /\ pc = "idle"
    /\ t_saved = NoThread
    /\ Len(returned) < 2
    /\ \E s \in ThreadInputsBySize[board_size], uf \in BOOLEAN :
          /\ \/ returned = <<>>
             \/ Len(returned) = 1 /\ s # returned[1].state
          /\ IdaCall(s, uf)

\* a new process starts (no database loaded) and two threads call ida_star,
\* each on one of the inputs of the two solves above
ThreadsStart ==
    /\ pc = "idle"
    /\ t_saved = NoThread
    /\ Len(returned) = 2
    /\ pattern_groups' = <<>>
    /\ pattern_databases' = <<>>
    /\ t_saved' = [locals |-> new_thread(returned[2].state, returned[2].use_frontier),
                   switches |-> 0, inits |-> 0]
    /\ Resume(new_thread(returned[1].state, returned[1].use_frontier))
    /\ UNCHANGED <<m_root, m_state, m_steps, m_call, m_ret, f_call, f_ret, buildVars, returned>>

\* the running thread is preempted, or is done, and the other thread runs
Switch ==
    /\ t_saved # NoThread
    /\ t_saved.locals.pc # "idle"
    /\ pc = "idle" \/ t_saved.switches < MaxSwitches
    /\ t_saved' = [t_saved EXCEPT !.locals = thread_locals,
                                  !.switches = IF pc = "idle" THEN @ ELSE @ + 1]
    /\ Resume(t_saved.locals)
    /\ UNCHANGED <<m_root, m_state, m_steps, m_call, m_ret, f_call, f_ret, buildVars,
                   globalVars, returned>>

\* ida_star, lines 52-60: the goal test and the test of pattern_databases
ThreadCall ==
    /\ pc = "t_call"
    /\ LET entry == ida_star_entry(ida_state, pattern_databases, db_file[get_size(ida_state)])
       IN  CASE entry = "return" -> Return(Moves(<<>>))
             [] entry = "raise" -> Return(Raises)
             [] entry = "search" ->
                /\ pc' = IF pattern_databases = <<>> THEN "t_init_groups" ELSE "t_bound"
                /\ UNCHANGED returned
    /\ UNCHANGED <<globalVars, callVars, bound, path, move_sequence, frontier, scanVars,
                   stack, ret, clock>>
    /\ UNCHANGED <<matrixVars, buildVars>>

\* init, line 31: pattern_groups = pickle.load(pattern_db_file)
ThreadInitGroups ==
    /\ pc = "t_init_groups"
    /\ pattern_groups' = db_file[get_size(ida_state)][1]
    /\ pc' = "t_init_databases"
    /\ t_saved' = [t_saved EXCEPT !.inits = @ + 1]
    /\ UNCHANGED <<pattern_databases, callVars, bound, path, move_sequence, frontier,
                   scanVars, stack, ret, returned, clock>>
    /\ UNCHANGED <<m_root, m_state, m_steps, m_call, m_ret, f_call, f_ret, buildVars>>

\* init, line 32: pattern_databases = pickle.load(pattern_db_file)
ThreadInitDatabases ==
    /\ pc = "t_init_databases"
    /\ pattern_databases' = db_file[get_size(ida_state)][2]
    /\ pc' = "t_bound"
    /\ UNCHANGED <<pattern_groups, callVars, bound, path, move_sequence, frontier,
                   scanVars, stack, ret, returned, clock>>
    /\ UNCHANGED <<matrixVars, buildVars>>

\* ida_star, lines 63-66: the first bound and the lists of the call
ThreadBound ==
    /\ pc = "t_bound"
    /\ bound' = calculate_heuristic(pattern_groups, pattern_databases, ida_state)
    /\ path' = <<ida_state>>
    /\ move_sequence' = <<>>
    /\ frontier' = <<>>
    /\ pc' = "loop"
    /\ clock' = 0
    /\ UNCHANGED <<globalVars, callVars, scanVars, stack, ret, returned>>
    /\ UNCHANGED <<matrixVars, buildVars>>

NextThreads ==
    \/ BuildStart
    \/ BuildStep
    \/ BuildReturn
    \/ MainDump
    \/ SeqCall
    \/ ThreadsStart
    \/ Switch
    \/ ThreadCall
    \/ ThreadInitGroups
    \/ ThreadInitDatabases
    \/ ThreadBound
    \/ DriverLoop
    \/ ScanStep
    \/ ScanReturn
    \/ RootReturn
    \/ SearchEnter
    \/ SearchTry
    \/ SearchResume

SpecThreads == Init /\ [][NextThreads]_vars

\* main of pattern_db.py, line 152: tile_groups, the 555 partition
TileGroups555 == << {1, 2, 3, 4, 7}, {5, 6, 9, 10, 13}, {8, 11, 12, 14, 15} >>

\* pattern_db_4.dat as far as the model holds it: the partition, and for each
\* group the database as build_pattern_database leaves it after the first
\* turn of its loop (the goal's pattern at cost 0).  The entries of the later
\* turns have keys of the same kind (str), which no lookup of the solver
\* finds, so the calls below read nothing of what is left out.
File555 ==
    <<TileGroups555,
      [i \in 1..Len(TileGroups555) |->
          visit_node(start_puzzle(4), {}, <<>>, TileGroups555[i] \cup {0}, TileGroups555[i])[3]]>>

\* the inputs of the end-to-end tests of play_console.py, and two states that
\* need the bound raised
ConsoleInputs ==
    { <<1, 2, 3, 4, 5, 6, 7, 8, 9, 10, 11, 12, 13, 14, 15, 0>>,
      <<1, 2, 3, 4, 5, 6, 7, 8, 9, 10, 11, 12, 13, 14, 0, 15>>,
      <<1, 2, 3, 4, 5, 6, 7, 8, 9, 10, 11, 12, 13, 0, 14, 15>>,
      <<1, 2, 3, 4, 5, 6, 0, 8, 9, 10, 7, 11, 13, 14, 15, 12>>,
      <<1, 2, 3, 4, 5, 0, 6, 8, 9, 10, 7, 11, 13, 14, 15, 12>>,
      <<5, 1, 2, 4, 9, 6, 3, 8, 0, 10, 7, 11, 13, 14, 15, 12>>,
      <<1, 2, 3, 4, 5, 6, 11, 7, 9, 10, 8, 12, 13, 14, 15, 0>>,
      <<1, 2, 3, 4, 5, 6, 7, 8, 9, 14, 10, 12, 13, 11, 15, 0>> }

\* direction_to_string of play_console.py, with the constants of model.Puzzle
direction_to_string(direction) ==
    CASE direction = <<1, 0>> -> "UP"
      [] direction = <<-1, 0>> -> "DOWN"
      [] direction = <<0, 1>> -> "LEFT"
      [] direction = <<0, -1>> -> "RIGHT"
      [] OTHER -> "UNKNOWN"

\* a process that solves one 4x4 puzzle: the database file of the 555
\* partition in place, nothing loaded yet
InitConsole ==
    /\ MatrixOff
    /\ pc = "idle"
    /\ board_size = 4
    /\ tile_groups = <<>>
    /\ group_number = 0
    /\ open_list = <<>>
    /\ visited = {}
    /\ closed_list = <<>>
    /\ built = <<>>
    /\ db_file = [n \in {4} |-> File555]
    /\ SolverOff

\* the one call of the process: ida_star(state), the frontier enabled
ConsoleCall ==
    /\ pc = "idle"
    /\ returned = <<>>
    /\ \E s \in ConsoleInputs : IdaCall(s, TRUE)

NextConsole ==
    \/ ConsoleCall
    \/ DriverLoop
    \/ ScanStep
    \/ ScanReturn
    \/ RootReturn
    \/ SearchEnter
    \/ SearchTry
    \/ SearchResume

SpecConsole == InitConsole /\ [][NextConsole]_vars

\* main of pattern_db.py run once more, for a board size that has no
\* database file yet, before the solver is first called
MainAgain(size) ==
    /\ pc = "idle"
    /\ returned = <<>>
    /\ db_file[size] = NoFile
    /\ board_size' = size
    /\ tile_groups' = TileGroups(size)
    /\ group_number' = 1
    /\ open_list' = <<>>
    /\ visited' = {}
    /\ closed_list' = <<>>
    /\ built' = <<>>
    /\ pc' = "main"
    /\ UNCHANGED db_file
    /\ UNCHANGED <<matrixVars, solveVars>>

\* the states of the calls of a process that solves boards of two sizes
SizeInputs == UNION {Within({get_win(size)}, MaxWalk) : size \in BuildSizes}

\* two calls of ida_star in one process, the second on a board of another
\* size than the first, the database files of all sizes in place
IdaSizes ==
    /\ pc = "idle"
    /\ \A size \in BuildSizes : db_file[size] # NoFile
    /\ \E s \in SizeInputs, uf \in BOOLEAN :
          /\ \/ returned = <<>>
             \/ Len(returned) = 1 /\ get_size(s) # get_size(returned[1].state)
          /\ IdaCall(s, uf)

NextSizes ==
    \/ BuildStart
    \/ BuildStep
    \/ BuildReturn
    \/ MainDump
    \/ \E size \in BuildSizes : MainAgain(size)
    \/ IdaSizes
    \/ DriverLoop
    \/ ScanStep
    \/ ScanReturn
    \/ RootReturn
    \/ SearchEnter
    \/ SearchTry
    \/ SearchResume

SpecSizes == Init /\ [][NextSizes]_vars

SpecNoFile == InitNoFile /\ [][NextNoFile]_vars

(***************************************************************************)
(* Claims about pattern_db.py                                              *)
(***************************************************************************)
\* the value that stands for every tile outside the group in a configuration
OtherTile(size) == size * size

\* the goal with the tiles outside the group made indistinguishable: legal
\* move sequences of full states and of these configurations correspond one
\* to one, with the same moved tile whenever it is in the group
GoalConfig(size, group) ==
    [i \in 1..(size * size) |->
        IF get_win(size)[i] \in group \cup {0} THEN get_win(size)[i] ELSE OtherTile(size)]

\* the configurations one legal move away from S, by a move of a group tile
\* (costly) or of another tile
ConfigSucc(S, group, costly) ==
    {r[1] : r \in {rr \in {move(c, d[1], d[2]) : c \in S, d \in {<<1, 0>>, <<-1, 0>>, <<0, 1>>, <<0, -1>>}} :
                      rr[1] # NoneState /\ ((rr[2] \in group) <=> costly)}}

RECURSIVE FreeClosure(_, _)
\* S and everything reachable from it by moves of tiles outside the group
FreeClosure(S, group) ==
    LET T == S \cup ConfigSucc(S, group, FALSE)
    IN  IF T = S THEN S ELSE FreeClosure(T, group)

RECURSIVE CostLevels(_, _, _)
\* levels[k + 1]: the configurations whose cheapest move sequence from the
\* goal has exactly k moves of group tiles
CostLevels(seen, cur, group) ==
    IF cur = {} THEN <<>>
    ELSE LET nxt == FreeClosure(ConfigSucc(cur, group, TRUE), group) \ (seen \cup cur)
         IN  <<cur>> \o CostLevels(seen \cup cur, nxt, group)

RECURSIVE PatternDigits(_, _, _)
\* the rows and columns of the group's tiles in a configuration, tile by tile
PatternDigits(c, group, t) ==
    IF t > Len(c) THEN <<>>
    ELSE (IF t \in group
          THEN LET i == CHOOSE j \in 1..Len(c) : c[j] = t
               IN  <<(i - 1) \div get_size(c), (i - 1) % get_size(c)>>
          ELSE <<>>) \o PatternDigits(c, group, t + 1)

\* the least number of group-tile moves over all legal move sequences from
\* the goal to a state with the pattern of key; -1 when there is none
MinGroupMoves(levels, group, key) ==
    LET ks == {k \in 1..Len(levels) : \E c \in levels[k] : PyStr(PatternDigits(c, group, 1)) = key}
    IN  IF ks = {} THEN -1 ELSE (CHOOSE k \in ks : \A j \in ks : k <= j) - 1

\* C7: the cost build_pattern_database stores for a pattern is the minimum,
\* over all legal move sequences from the goal to a state having the
\* pattern, of the number of moves whose moved tile is in the group.
C7_StoredCostIsMinimum ==
    pc = "dump" =>
        \A g \in 1..Len(built) :
            LET group == tile_groups[g]
                levels == CostLevels({}, FreeClosure({GoalConfig(board_size, group)}, group), group)
            IN  \A key \in DOMAIN built[g] : built[g][key] = MinGroupMoves(levels, group, key)

\* C8: in every database build_pattern_database returns, the entry of the
\* goal's pattern is 0 and every stored cost is a non-negative integer.
C8_GoalZeroCostsNonNegative ==
    \A g \in 1..Len(built) :
        /\ Puzzle_hash(Puzzle_init(board_size), tile_groups[g]) \in DOMAIN built[g]
        /\ built[g][Puzzle_hash(Puzzle_init(board_size), tile_groups[g])] = 0
        /\ \A key \in DOMAIN built[g] : built[g][key] \in Nat

\* C8 witness: a returned database of a 3x3 group that holds the goal's
\* pattern and a pattern of positive cost
C8_Witness ==
    /\ board_size = 3
    /\ Len(built) >= 2
    /\ \E key \in DOMAIN built[2] : built[2][key] >= 2
    /\ Puzzle_hash(Puzzle_init(board_size), tile_groups[2]) \in DOMAIN built[2]

(***************************************************************************)
(* Claims about calculate.py                                               *)
(***************************************************************************)
\* the states one valid unit move of the blank away from a state of S
Neighbours(S) ==
    {r[1] : r \in {rr \in {move(c, d[1], d[2]) : c \in S, d \in {<<1, 0>>, <<-1, 0>>, <<0, 1>>, <<0, -1>>}} :
                      rr[1] # NoneState}}

RECURSIVE GoalRings(_, _, _)
\* rings[k + 1]: the states whose shortest move sequence to the goal has k
\* moves (a unit move is undone by the opposite one), for k up to depth
GoalRings(seen, cur, depth) ==
    IF cur = {} \/ depth < 0 THEN <<>>
    ELSE <<cur>> \o GoalRings(seen \cup cur, Neighbours(cur) \ (seen \cup cur), depth - 1)

\* the rings of each board size: all of them for the 2x2 board, those of the
\* solver's inputs for the others
RingsBySize ==
    [size \in BuildSizes |->
        GoalRings({}, {get_win(size)}, IF size = 2 THEN Cardinality(Permutations4) ELSE MaxScramble)]

\* the goal is reachable from s (decided for the solver's inputs)
Solvable(s) == \E k \in 1..Len(RingsBySize[get_size(s)]) : s \in RingsBySize[get_size(s)][k]

\* the length of a shortest move sequence from s to the goal
optimal_moves(s) == (CHOOSE k \in 1..Len(RingsBySize[get_size(s)]) : s \in RingsBySize[get_size(s)][k]) - 1

RECURSIVE Replay(_, _)
\* the state after the moves of ms are applied in order to s with matrix.move;
\* None as soon as one of them is not valid
Replay(s, ms) ==
    IF ms = <<>> THEN s
    ELSE LET r == move(s, ms[1][1], ms[1][2])
         IN  IF r[1] = NoneState THEN NoneState ELSE Replay(r[1], Tail(ms))

\* a call of ida_star is under way
Running == pc \in {"loop", "scan", "search", "scan_search"}

\* the call under way has a next step: the guard of one of DriverLoop,
\* ScanStep, ScanReturn, RootReturn, SearchEnter, SearchTry, SearchResume holds
CanStep ==
    /\ clock < MaxSteps
    /\ \/ pc \in {"loop", "scan"}
       \/ pc \in {"search", "scan_search"} /\ stack = <<>>
       \/ Searching /\ Last(stack).at \in {"enter", "loop", "wait"}

\* C1: for every solvable non-goal state, with use_frontier true or false,
\* ida_star terminates (the call always has a next step and returns within
\* MaxSteps steps) and returns a move list, not None, whose moves applied in
\* order with matrix.move are all valid and end in the goal.
C1_SolvableStateSolved ==
    /\ (Running /\ Solvable(ida_state)) => CanStep
    /\ \A i \in 1..Len(returned) :
          LET r == returned[i]
          IN  (Solvable(r.state) /\ r.state # get_win(get_size(r.state))) =>
                  /\ r.result.kind = "moves"
                  /\ Replay(r.state, r.result.moves) = get_win(get_size(r.state))

\* C1 witness: a first call with the frontier on a 3x3 state returned, from
\* the scan of the frontier, a list of five moves or more
C1_Witness ==
    /\ pc = "idle"
    /\ Len(returned) = 1
    /\ returned[1].use_frontier
    /\ get_size(returned[1].state) = 3
    /\ snapshot # <<>>
    /\ returned[1].result = Moves(moves)
    /\ Len(moves) >= 5

\* C2: with use_frontier = False the move list ida_star returns for a
\* solvable state has exactly the length of a shortest move sequence from
\* the state to the goal.
C2_ClassicalOptimal ==
    \A i \in 1..Len(returned) :
        LET r == returned[i]
        IN  (~r.use_frontier /\ Solvable(r.state) /\ r.result.kind = "moves") =>
                Len(r.result.moves) = optimal_moves(r.state)

\* C2 witness: a classical call returned five moves or more after the bound
\* was raised over the heuristic of the initial state
C2_Witness ==
    /\ pc = "idle"
    /\ Len(returned) = 1
    /\ ~returned[1].use_frontier
    /\ returned[1].result.kind = "moves"
    /\ Len(returned[1].result.moves) >= 5
    /\ bound > calculate_heuristic(pattern_groups, pattern_databases, returned[1].state)

\* C3: ida_star with the frontier and without it return move lists of equal
\* length on the same state (or both return None).
C3_ModesEqualLength ==
    Len(returned) = 2 =>
        /\ returned[1].result.kind = returned[2].result.kind
        /\ Len(returned[1].result.moves) = Len(returned[2].result.moves)

\* C3 witness: the two calls on a state returned lists of five moves or
\* more, the first call with the frontier and from a scan of it, the second
\* without the frontier
C3_Witness ==
    /\ Len(returned) = 2
    /\ returned[1].use_frontier
    /\ snapshot # <<>>
    /\ returned[1].result = Moves(moves)
    /\ ~returned[2].use_frontier
    /\ returned[2].result.kind = "moves"
    /\ Len(returned[2].result.moves) >= 5

Called == pc = "loop" /\ clock = 0

\* the first call of the process: the file the builder wrote has just been loaded
Loaded == Called /\ returned = <<>>

\* C6: with the databases the builder produced for the partition,
\* calculate_heuristic(s) is at most optimal_moves(s) for every state s the
\* goal is reachable from, and calculate_heuristic(goal) is 0.  The states s
\* are those ida_star is called on, the heuristic of the state of the call
\* being the first bound.
C6_HeuristicAdmissible ==
    Called =>
        /\ bound = calculate_heuristic(pattern_groups, pattern_databases, ida_state)
        /\ Solvable(ida_state) => bound <= optimal_moves(ida_state)
        /\ calculate_heuristic(pattern_groups, pattern_databases, get_win(board_size)) = 0

\* C6 witness: the databases built for the 3x3 board are loaded and the
\* heuristic of the state of the call is positive and below its optimum
C6_Witness ==
    /\ Loaded
    /\ board_size = 3
    /\ pattern_databases = db_file[3][2]
    /\ bound >= 3
    /\ bound < optimal_moves(ida_state)

\* C9: for every state reachable from the goal and every group, the key
\* calculate_heuristic looks up (compress of the state with the other tiles
\* zeroed) is present in the group's database written by the builder.
C9_SolverKeysInDatabases ==
    Loaded =>
        \A g \in 1..Len(pattern_groups) :
            \A s \in StartStates(board_size) :
                Solvable(s) =>
                    PyInt(compress(replace_with_zeros(s, pattern_groups[g])))
                        \in DOMAIN pattern_databases[g]

(***************************************************************************)
(* Claims about matrix.py                                                  *)
(***************************************************************************)
\* C5: for every permutation state of every board size, odd or even,
\* is_solvable(s) is true if and only if the goal is reachable from s by
\* valid unit blank moves.  Every state of the walk is joined to its root by
\* unit moves, so it reaches the goal exactly when its root is the goal (the
\* goal with two tiles exchanged lies in the other half of the permutations).
C5_SolvableIffReachable ==
    is_solvable(m_state) <=> (m_root = get_win(get_size(m_root)))

\* C10: move returns (None, None) exactly when the blank's new row or new
\* column lies outside [0, N-1]; otherwise the returned state is the
\* argument with the blank and the destination cell exchanged, and
\* moved_tile is the tile that was in the destination cell.
C10_MoveContract ==
    m_call # NoCall =>
        LET s == m_call.state
            n == get_size(s)
            z == CHOOSE i \in 1..Len(s) : s[i] = 0
            nr == ((z - 1) \div n) + m_call.vertical
            nc == ((z - 1) % n) + m_call.horizontal
            t == nr * n + nc + 1
        IN  IF nr \in 0..(n - 1) /\ nc \in 0..(n - 1)
            THEN /\ m_ret[1] # NoneState
                 /\ Len(m_ret[1]) = Len(s)
                 /\ m_ret[1][z] = s[t]
                 /\ m_ret[1][t] = 0
                 /\ \A i \in 1..Len(s) : i \notin {z, t} => m_ret[1][i] = s[i]
                 /\ m_ret[2] = s[t]
            ELSE m_ret = <<NoneState, NoneTile>>

\* C10 witness: a horizontal step off the right edge of a row that is not the
\* last was refused, and a step inside the board was made
C10_Witness ==
    /\ m_call # NoCall
    /\ m_call.horizontal = 1
    /\ m_call.vertical = 0
    /\ m_ret = <<NoneState, NoneTile>>
    /\ m_steps >= 2
    /\ m_state # m_root


----------------------------------------------------------------------------
\* the number compress gives the goal, written out bit by bit (least
\* significant first) from the board size alone: tile c in cell c, each cell
\* `bits` wide, the first cell in the highest bits, the blank last
GoalNumber(size, bits) ==
    Norm([k \in 1..(bits * size * size) |->
            LET cell == size * size - ((k - 1) \div bits)
                tile == IF cell = size * size THEN 0 ELSE cell
            IN  (tile \div 2 ^ ((k - 1) % bits)) % 2])

\* least number of bits that hold every value 0 .. n
RECURSIVE BitsFor(_)
BitsFor(n) == IF n = 0 THEN 0 ELSE 1 + BitsFor(n \div 2)

\* C11: for every tuple of N*N values each in 0 .. N*N-1, a valid state or a
\* zero-filled pattern, decompress(compress(s), N) is s again; no other such
\* tuple of the same size has the same number; and the goal's number is the
\* one the board size alone fixes.
C11_CodecRoundTrip ==
    f_call.fn = "compress" =>
        LET s == f_call.arg
            size == get_size(s)
        IN  /\ f_ret.state = s
            /\ \A t \in CodecInputs :
                   Len(t) = Len(s) /\ compress(t) = f_ret.packed => t = s
            /\ s = get_win(size) =>
                   f_ret.packed = GoalNumber(size, BitsFor(size * size - 1))

\* a zero-filled pattern of the 3x3 board with a tile of four bits went
\* through the codec
C11_Witness ==
    /\ f_call.fn = "compress"
    /\ Len(f_call.arg) = 9
    /\ \E i \in 1..9 : f_call.arg[i] = 8
    /\ Cardinality({i \in 1..9 : f_call.arg[i] = 0}) >= 7
    /\ f_ret.state = f_call.arg

----------------------------------------------------------------------------
\* C12: for every list of at most 255 moves, the empty list included,
\* decompress_moves(compress_moves(m)) is m again and
\* get_moves_length(compress_moves(m)) is len(m).
C12_MovesRoundTrip ==
    f_call.fn = "compress_moves" /\ Len(f_call.arg) <= 255 =>
        /\ f_ret.moves = f_call.arg
        /\ f_ret.length = Len(f_call.arg)

\* a list of 255 moves, not all the same, went through the move codec
C12_Witness ==
    /\ f_call.fn = "compress_moves"
    /\ Len(f_call.arg) = 255
    /\ f_call.arg[1] # f_call.arg[2]
    /\ f_ret.length = 255
    /\ f_ret.moves = f_call.arg

----------------------------------------------------------------------------
\* C20: on the 4x4 board is_solvable returns true for the goal state and
\* false for the goal state with tiles 14 and 15 swapped.
C20_FifteenPuzzleParity ==
    f_call.fn = "is_solvable" =>
        /\ f_call.arg = <<1, 2, 3, 4, 5, 6, 7, 8, 9, 10, 11, 12, 13, 14, 15, 0>>
               => f_ret = TRUE
        /\ f_call.arg = <<1, 2, 3, 4, 5, 6, 7, 8, 9, 10, 11, 12, 13, 15, 14, 0>>
               => f_ret = FALSE

\* is_solvable was called on the 15-puzzle with tiles 14 and 15 swapped
C20_Witness ==
    /\ f_call.fn = "is_solvable"
    /\ f_call.arg = <<1, 2, 3, 4, 5, 6, 7, 8, 9, 10, 11, 12, 13, 15, 14, 0>>
    /\ f_ret = FALSE

----------------------------------------------------------------------------
\* row plus column distance of a tile from its goal cell (tile t belongs in
\* cell t - 1, cells counted from 0 row by row)
TileDistance(s, size, t) ==
    LET at == (CHOOSE i \in 1..Len(s) : s[i] = t) - 1
    IN  Abs((at \div size) - ((t - 1) \div size)) + Abs((at % size) - ((t - 1) % size))

RECURSIVE SumOver(_, _, _)
\* the sum of TileDistance over a set of tiles
SumOver(s, size, tiles) ==
    IF tiles = {} THEN 0
    ELSE LET t == CHOOSE x \in tiles : TRUE
         IN  TileDistance(s, size, t) + SumOver(s, size, tiles \ {t})

RECURSIVE ExpectedHeuristic(_, _)
\* database cost for the groups whose key is present, the group's own
\* Manhattan distance for the others
ExpectedHeuristic(a, i) ==
    IF i = 0 THEN 0
    ELSE (IF i \in a.present THEN a.base + i
          ELSE SumOver(a.state, get_size(a.state), a.pattern_groups[i]))
         + ExpectedHeuristic(a, i - 1)

\* C17: when a group's pattern key is absent from its database,
\* calculate_heuristic adds for that group the Manhattan distance of the
\* group's tiles only (the other tiles and the blank count 0), and the groups
\* whose key is present still add their database values.
C17_FallbackRestrictedToGroup ==
    f_call.fn = "calculate_heuristic" =>
        f_ret = ExpectedHeuristic(f_call.arg, Len(f_call.arg.pattern_groups))

\* a call where one group's key was present and another's absent, a tile
\* outside the absent group was off its goal cell, and the absent group's own
\* tiles were off theirs
C17_Witness ==
    /\ f_call.fn = "calculate_heuristic"
    /\ LET a == f_call.arg
           size == get_size(a.state)
           n == Len(a.pattern_groups)
       IN  \E i, j \in 1..n :
              /\ i \in a.present
              /\ j \notin a.present
              /\ SumOver(a.state, size, a.pattern_groups[i]) > 0
              /\ SumOver(a.state, size, a.pattern_groups[j]) > 0
              /\ f_ret = ExpectedHeuristic(a, n)

----------------------------------------------------------------------------
\* the goal, cell by cell: tile i in cell i, the blank in the last cell
IsGoal(s) == \A i \in 1..Len(s) : s[i] = i % Len(s)

\* C15: ida_star called on the goal state returns the empty list at once, for
\* either frontier setting: no search is ever running on the goal, and the
\* call needs no database (here none is loaded and no file exists).
C15_GoalReturnsEmptyAtOnce ==
    /\ \A i \in 1..Len(returned) :
           IsGoal(returned[i].state) => returned[i].result = Moves(<<>>)
    /\ Running => ~IsGoal(ida_state)

\* the goal was solved with both frontier settings with no database loaded
\* and no database file
C15_Witness ==
    /\ Len(returned) = 2
    /\ IsGoal(returned[1].state) /\ IsGoal(returned[2].state)
    /\ returned[1].use_frontier # returned[2].use_frontier
    /\ returned[2].result = Moves(<<>>)
    /\ pattern_databases = <<>>
    /\ db_file[board_size] = NoFile
    /\ pc = "idle" /\ stack = <<>>

\* C18: when no database is loaded and the database file of the board size
\* is missing, ida_star on a non-goal state raises the error of init: no
\* heuristic was computed (the bound is never set), search was never called
\* (no path, no frame), and no move list is returned.
C18_MissingFileRaisesAtStart ==
    \A i \in 1..Len(returned) :
        (/\ ~IsGoal(returned[i].state)
         /\ pattern_databases = <<>>
         /\ db_file[get_size(returned[i].state)] = NoFile)
        => /\ returned[i].result = Raises
           /\ pc = "idle"
           /\ bound = 0 /\ path = <<>> /\ stack = <<>> /\ frontier = <<>>
           /\ pattern_groups = <<>>

\* a 3x3 non-goal state was given to ida_star twice with no file, and both
\* calls raised
C18_Witness ==
    /\ Len(returned) = 2
    /\ Len(returned[1].state) = 9
    /\ ~IsGoal(returned[1].state)
    /\ db_file[3] = NoFile
    /\ returned[1].result = Raises /\ returned[2].result = Raises

----------------------------------------------------------------------------
\* the value a dict holds for a key
ValueOf(d, k) == d[CHOOSE i \in 1..Len(d) : d[i][1] = k][2]

\* search has just returned a cost to its caller and the frontier holds an
\* entry for the node it was called on: the entry lines 144-146 wrote
FrontierWritten ==
    /\ pc \in {"search", "scan_search"}
    /\ ~ret.is_bool
    /\ stack = <<>> \/ Last(stack).at = "wait"
    /\ dict_has(frontier, compress(Last(SearchPath)))

\* C16: every frontier entry written during a solve holds its node's move
\* sequence: get_moves_length of the stored value is the number of moves of
\* the recorded node and decompress_moves returns exactly those moves, also
\* when the sequence is longer than 255 moves.
C16_FrontierEntryHoldsMoves ==
    FrontierWritten =>
        LET packed_moves == ValueOf(frontier, compress(Last(SearchPath)))
        IN  /\ get_moves_length(packed_moves) = Len(SearchMoves)
            /\ decompress_moves(packed_moves) = SearchMoves

----------------------------------------------------------------------------
\* C14: across the calls of ida_star of one process on boards of different
\* sizes, every call searches with the partition and the databases of the
\* file of its own board size.
C14_DatabasesOfOwnSize ==
    Running =>
        /\ pattern_groups = db_file[get_size(ida_state)][1]
        /\ pattern_databases = db_file[get_size(ida_state)][2]

----------------------------------------------------------------------------
\* the six inputs of the end-to-end scenarios with their listed move lists
ListedMoves ==
    << << <<1, 2, 3, 4, 5, 6, 7, 8, 9, 10, 11, 12, 13, 14, 15, 0>>, <<>> >>,
       << <<1, 2, 3, 4, 5, 6, 7, 8, 9, 10, 11, 12, 13, 14, 0, 15>>, <<"LEFT">> >>,
       << <<1, 2, 3, 4, 5, 6, 7, 8, 9, 10, 11, 12, 13, 0, 14, 15>>, <<"LEFT", "LEFT">> >>,
       << <<1, 2, 3, 4, 5, 6, 0, 8, 9, 10, 7, 11, 13, 14, 15, 12>>, <<"UP", "LEFT", "UP">> >>,
       << <<1, 2, 3, 4, 5, 0, 6, 8, 9, 10, 7, 11, 13, 14, 15, 12>>,
          <<"LEFT", "UP", "LEFT", "UP">> >>,
       << <<5, 1, 2, 4, 9, 6, 3, 8, 0, 10, 7, 11, 13, 14, 15, 12>>,
          <<"DOWN", "DOWN", "LEFT", "LEFT", "UP", "UP", "LEFT", "UP">> >> >>

\* the encoding the scenarios are stated with: UP=(-1,0), DOWN=(1,0),
\* LEFT=(0,1), RIGHT=(0,-1)
StatedName(direction) ==
    CASE direction = <<-1, 0>> -> "UP"
      [] direction = <<1, 0>> -> "DOWN"
      [] direction = <<0, 1>> -> "LEFT"
      [] direction = <<0, -1>> -> "RIGHT"

\* every call returned on a listed input returned a move list that reads,
\* under the naming Name, as the listed one
ReturnsListed(Name(_)) ==
    \A i \in 1..Len(returned), k \in 1..Len(ListedMoves) :
        returned[i].state = ListedMoves[k][1] =>
            /\ returned[i].result.kind = "moves"
            /\ [j \in 1..Len(returned[i].result.moves) |-> Name(returned[i].result.moves[j])]
               = ListedMoves[k][2]

----------------------------------------------------------------------------
\* C19: two solves run concurrently on different inputs of one board size,
\* each with its own path, move_sequence and frontier and sharing only the
\* loaded databases, return in every interleaving what the same two calls
\* returned when run one after the other (entries 1 and 2 of returned), also
\* when both start before the databases are loaded.
C19_ConcurrentAsSequential ==
    t_saved # NoThread =>
        /\ Len(returned) <= 4
        /\ \A i \in 3..Len(returned) :
               \E j \in 1..2 : returned[j] = returned[i]
        /\ Len(returned) = 4 => returned[3].state # returned[4].state

\* both threads found no database loaded and both ran init, the running
\* thread was preempted more than once, and both solves returned moves
C19_Witness ==
    /\ t_saved # NoThread
    /\ t_saved.inits = 2
    /\ t_saved.switches >= 2
    /\ Len(returned) = 4
    /\ \A i \in 3..4 : returned[i].result.kind = "moves" /\ returned[i].result.moves # <<>>

----------------------------------------------------------------------------
\* the result of the iteration the driver has just finished: min_exceeded
\* after a scan, what search returned otherwise
IterationResult == IF pc = "scan" THEN min_exceeded ELSE ret.val

\* a step of the driver that ends an iteration: back to the head of the
\* loop, or out of ida_star
EndsIteration == pc \in {"scan", "search", "scan_search"} /\ pc' \in {"loop", "idle"}

\* C21: in every solve each new iteration has a bound strictly greater than
\* the one before; a solve that has returned (found or exhausted) takes no
\* further step and returns once; and it returns None only on an iteration
\* whose result is INFINITY.
C21_BoundStrictlyRises ==
    [][/\ (EndsIteration /\ pc' = "loop") => bound' > bound
       /\ (pc # "idle" /\ pc' # "idle") => returned' = returned
       /\ (EndsIteration /\ pc' = "idle") =>
              /\ Len(returned') = Len(returned) + 1
              /\ bound' = bound
              /\ Last(returned').result = ReturnsNone
                     => ~EqualsTrue(ret) /\ IterationResult = INFINITY
       /\ pc = "idle" => (pc' \in {"idle", "loop"} /\ stack' = <<>>)]_vars

\* a solve with the frontier is in at least its third iteration
C21_Witness ==
    /\ pc = "loop"
    /\ use_frontier
    /\ clock > 0
    /\ bound >= calculate_heuristic(pattern_groups, pattern_databases, ida_state) + 4

----------------------------------------------------------------------------
\* a frontier entry holds a path from the initial state of the solve to the
\* state of its key
EntryHoldsPath(entry) ==
    LET ms == decompress_moves(entry[2])
    IN  /\ Replay(ida_state, ms) = decompress(entry[1], get_size(ida_state))
        /\ get_moves_length(entry[2]) = Len(ms)

\* C22: for every frontier entry (key, packed) of a solve, the moves
\* decompress_moves(packed) applied in order to the initial state of the
\* solve give decompress(key, N), and get_moves_length(packed) is the depth
\* the node was recorded at; also for the entries recorded by a search
\* resumed from a frontier node.  Stated of each entry when search has just
\* written it, and of all entries at the head of every iteration.
C22_FrontierKeepsPathFromRoot ==
    /\ FrontierWritten =>
           LET key == compress(Last(SearchPath))
           IN  /\ EntryHoldsPath(<<key, ValueOf(frontier, key)>>)
               /\ stack # <<>> =>
                      get_moves_length(ValueOf(frontier, key)) = Last(stack).depth + 1
    /\ pc = "loop" => \A i \in 1..Len(frontier) : EntryHoldsPath(frontier[i])

\* the same on the solvable inputs only
C22_OnSolvable == (Running /\ Solvable(ida_state)) => C22_FrontierKeepsPathFromRoot

\* the depth a frontier entry holds
StoredDepth(fr, key) == get_moves_length(ValueOf(fr, key))

\* a step of search keeps the shorter path: when it records a node whose key
\* is in the frontier the depth stored afterwards is not greater than the
\* depth stored before; and when it re-reaches, at a depth greater than the
\* stored one, a state whose key is in the frontier, the state is not
\* recorded again at that depth (its cost there is within the bound)
ShorterPathKept ==
    /\ \A i \in 1..Len(frontier) :
           dict_has(frontier', frontier[i][1]) =>
               StoredDepth(frontier', frontier[i][1]) <= get_moves_length(frontier[i][2])
    /\ (Searching /\ Len(stack') = Len(stack) + 1) =>
           LET next_state == Last(SearchPath')
               key == compress(next_state)
               depth == Last(stack').depth
           IN  (dict_has(frontier, key) /\ depth > StoredDepth(frontier, key)) =>
                   depth + calculate_heuristic(pattern_groups, pattern_databases, next_state)
                       <= bound

\* C23: within a solve a shorter recorded path to a frontier state is never
\* replaced by a longer one, unless the state was expanded at a depth not
\* greater than the stored one.
C23_ShorterPathNeverReplaced == [][ShorterPathKept]_vars

\* the same on the solvable inputs only
C23_OnSolvable == [][(Running /\ Solvable(ida_state)) => ShorterPathKept]_vars

(***************************************************************************)
(* A caller of search, as the unit tests of test_search.py: the databases  *)
(* of the board size loaded, then one call search(path, depth, bound,      *)
(* move_sequence, frontier) with path = [state] and an empty frontier.     *)
(***************************************************************************)
MaxDepth == 2
MaxBound == 3
WideBound == 13

\* the bounds of the calls: the low ones, and on the 2x2 board one above the
\* cost of every state of the board
SearchBounds(size) == 0..MaxBound \cup (IF size = 2 THEN {WideBound} ELSE {})

\* the move sequences of the calls: none, or one earlier move
SearchSequences == {<<>>} \cup {<<DIRECTIONS[i]>> : i \in 1..Len(DIRECTIONS)}

\* the states of the calls
SearchInputsBySize ==
    [size \in BuildSizes |->
        IF size = 2 THEN Permutations4 ELSE Within({get_win(size)}, MaxStep)]

\* calculate.init(size), then search([state], depth, bound, move_sequence, {})
SearchCall ==
    /\ pc = "idle"
    /\ db_file[board_size] # NoFile
    /\ \E s \in SearchInputsBySize[board_size], depth \in 0..MaxDepth,
          b \in SearchBounds(board_size), ms \in SearchSequences :
          /\ pattern_groups' = db_file[board_size][1]
          /\ pattern_databases' = db_file[board_size][2]
          /\ ida_state' = s
          /\ bound' = b
          /\ path' = <<s>>
          /\ move_sequence' = ms
          /\ stack' = <<Frame(depth)>>
    /\ frontier' = <<>>
    /\ pc' = "search"
    /\ clock' = 0
    /\ UNCHANGED <<use_frontier, scanVars, ret, returned>>
    /\ UNCHANGED <<matrixVars, buildVars>>

\* search returned to its caller, who keeps the result
SearchReturned ==
    /\ pc = "search"
    /\ stack = <<>>
    /\ pc' = "returned"
    /\ UNCHANGED <<matrixVars, buildVars, solveVars>>

NextSearch ==
    \/ BuildStart
    \/ BuildStep
    \/ BuildReturn
    \/ MainDump
    \/ SearchCall
    \/ SearchEnter
    \/ SearchTry
    \/ SearchResume
    \/ SearchReturned

SpecSearch == Init /\ [][NextSearch]_vars

\* the f-cost of the node at the head of the running call of search
HeadCost ==
    Last(stack).depth
        + calculate_heuristic(pattern_groups, pattern_databases, Last(SearchPath))

\* a step of search on entry, lines 137-153
BoundBeforeGoal ==
    /\ (Searching /\ Last(stack).at = "enter" /\ HeadCost > bound) =>
           /\ dict_has(frontier', compress(Last(SearchPath)))
           /\ ValueOf(frontier', compress(Last(SearchPath))) = compress_moves(SearchMoves)
           /\ ret' = RetInt(HeadCost)
           /\ stack' = Front(stack)
           /\ path' = path /\ move_sequence' = move_sequence
           /\ frontier_path' = frontier_path /\ moves' = moves
    /\ (Searching /\ ret'.is_bool /\ Len(stack') < Len(stack) /\ Last(stack).at = "enter") =>
           /\ HeadCost <= bound
           /\ Last(SearchPath) = get_win(get_size(Last(SearchPath)))
    /\ (Searching /\ ret'.is_bool /\ ~ret.is_bool) => Last(stack).at = "enter"

\* C24: search tests the bound before the goal: at a head node u with
\* f = depth + h(u) > bound it records u under compress(u) with
\* compress_moves(move_sequence), returns f and expands no successor, path
\* and move_sequence unchanged; it returns FOUND only when f <= bound and u
\* is the goal.
C24_BoundTestedBeforeGoal == [][BoundBeforeGoal]_vars

\* the goal at a depth over the bound: recorded, its cost returned
C24_Witness ==
    /\ pc = "returned"
    /\ path = <<get_win(get_size(ida_state))>>
    /\ ~ret.is_bool /\ ret.val > bound
    /\ dict_has(frontier, compress(ida_state))

\* the successors search expands from the head of branch p, with the moves
\* to them: not the reverse of the last move, on the board, not on the branch
Successors(p, ms) ==
    {r \in {<<move(Last(p), DIRECTIONS[i][1], DIRECTIONS[i][2])[1], DIRECTIONS[i]>> :
                i \in {j \in 1..Len(DIRECTIONS) : ~is_reverse(DIRECTIONS[j], ms)}} :
        r[1] # NoneState /\ ~InSeq(r[1], p)}

\* the f-costs of the nodes over the bound b in the tree below the head of
\* branch p, met at depth depth after the moves ms: the nodes a call of
\* search that does not find the goal prunes
RECURSIVE PrunedCosts(_, _, _, _)
PrunedCosts(p, depth, b, ms) ==
    LET f == depth + calculate_heuristic(pattern_groups, pattern_databases, Last(p))
    IN  IF f > b THEN {f}
        ELSE IF Last(p) = get_win(get_size(Last(p))) THEN {}
        ELSE UNION {PrunedCosts(Append(p, r[1]), depth + 1, b, Append(ms, r[2])) :
                        r \in Successors(p, ms)}

SetMin(S) == CHOOSE x \in S : \A y \in S : x <= y

\* a call of search returns a cost: the least cost it pruned, or INFINITY
ReturnsMinimumPruned ==
    (Searching /\ Len(stack') < Len(stack) /\ ~EqualsTrue(ret')) =>
        LET pruned == PrunedCosts(SearchPath, Last(stack).depth, bound, SearchMoves)
        IN  /\ pruned # {} => (ret'.val = SetMin(pruned) /\ ret'.val > bound)
            /\ pruned = {} <=> ret'.val = INFINITY

\* C25: a call of search that does not find the goal returns the minimum
\* f-cost over the nodes it pruned for exceeding the bound, a value greater
\* than the bound, and it returns INFINITY exactly when it pruned no node.
C25_ReturnsMinimumPrunedCost == [][ReturnsMinimumPruned]_vars

\* a call returned the least of several pruned costs
C25_Witness ==
    /\ pc = "returned"
    /\ ~ret.is_bool /\ ret.val > bound /\ ret.val < INFINITY
    /\ \E i \in 1..Len(frontier) :
           get_moves_length(frontier[i][2])
               + calculate_heuristic(pattern_groups, pattern_databases,
                                     decompress(frontier[i][1], get_size(ida_state)))
             > ret.val

\* a call that pruned no node returned INFINITY
C25_NothingPruned == pc = "returned" /\ ret = RetInt(INFINITY) /\ frontier = <<>>

\* C26: with use_frontier = False the frontier map stays empty for the whole
\* solve: search records no entry in it.
C26_FrontierEmptyWhenDisabled == (Running /\ ~use_frontier) => frontier = <<>>

\* the f-cost of a frontier entry: the depth it holds and the heuristic of
\* its state
EntryCost(entry) ==
    get_moves_length(entry[2])
        + calculate_heuristic(pattern_groups, pattern_databases,
                              decompress(entry[1], get_size(ida_state)))

\* the entries of the frontier are all over the bound
AllOverBound == \A i \in 1..Len(frontier) : EntryCost(frontier[i]) > bound

\* C27: at the end of every iteration of the driver loop every entry left in
\* the frontier has depth + h(state) greater than the bound of that
\* iteration.
C27_LeftEntriesOverBound == [][(EndsIteration /\ pc' = "loop") => AllOverBound]_vars

\* the same, the iteration that returns the moves included
C27_AlsoWhenFound == [][EndsIteration => AllOverBound]_vars

\* the same on the solvable inputs only
C27_OnSolvable ==
    [][(EndsIteration /\ pc' = "loop" /\ Solvable(ida_state)) => AllOverBound]_vars

\* the entry of the snapshot whose turn it is
ScanTurn == pc = "scan" /\ scan_index <= Len(snapshot)

\* the entry whose turn it is was removed from the frontier meanwhile
TurnOfRemoved == ScanTurn /\ ~dict_has(frontier, snapshot[scan_index][1])

\* a step of the scan and of its sub-searches
ScanSkipsRemoved ==
    /\ TurnOfRemoved =>
           /\ pc' = "scan"
           /\ scan_index' = scan_index + 1
           /\ frontier' = frontier
           /\ stack' = <<>>
    /\ (pc = "scan" /\ pc' = "scan_search") =>
           /\ dict_has(frontier, snapshot[scan_index][1])
           /\ Len(frontier') = Len(frontier) - 1
           /\ frontier_path' = <<decompress(snapshot[scan_index][1], get_size(ida_state))>>
    /\ (pc \in {"scan", "scan_search"} /\ pc' \in {"scan", "scan_search"}) =>
           /\ snapshot' = snapshot
           /\ scan_index' \in {scan_index, scan_index + 1}
           /\ scan_index' <= Len(snapshot) + 1

\* C28: during a frontier scan an entry of the snapshot whose key is no
\* longer in the frontier when its turn comes is not searched from again,
\* and the scan goes through the snapshot whatever entries the sub-searches
\* add or remove: it deletes only keys that are present, and its snapshot
\* does not change.
C28_ScanSkipsRemovedEntries == [][ScanSkipsRemoved]_vars

\* the turn of an entry within the bound that an earlier sub-search of the
\* scan removed
C28_Witness ==
    /\ TurnOfRemoved
    /\ EntryCost(snapshot[scan_index]) <= bound
    /\ Len(frontier) > 0

\* no move of ms is followed by its reverse
NoReversal(ms) ==
    \A i \in 1..(Len(ms) - 1) : ms[i + 1] # <<-ms[i][1], -ms[i][2]>>

\* a step of search that applies a move, and a return of ida_star
NeverUndoes ==
    /\ (Searching /\ Len(stack') = Len(stack) + 1 /\ SearchMoves # <<>>) =>
           /\ Front(SearchMoves') = SearchMoves
           /\ Last(SearchMoves') # <<-Last(SearchMoves)[1], -Last(SearchMoves)[2]>>
    /\ Len(returned') > Len(returned) => NoReversal(Last(returned').result.moves)

\* C29: search never applies a move that is the exact reverse of the last
\* move of move_sequence, and no move list returned by ida_star holds a move
\* followed by its reverse, also where a resumed frontier path meets its
\* continuation.
C29_NoMoveUndone == [][NeverUndoes]_vars

\* moves returned by a search resumed from a frontier node, after at least
\* one move of its own
C29_Witness ==
    /\ pc = "idle"
    /\ returned # <<>>
    /\ Last(returned).result.kind = "moves"
    /\ Last(returned).result.moves = moves
    /\ Last(returned).use_frontier
    /\ frontier_path # <<>>
    /\ Len(frontier_path) >= 2
    /\ Len(moves) > Len(frontier_path)

\* the states of a list are pairwise distinct
Distinct(seq) == \A i, j \in 1..Len(seq) : i # j => seq[i] # seq[j]

\* the direction the for loop of the running call of search is at, and the
\* state it leads to
AtDirection == Searching /\ Last(stack).at = "loop" /\ Last(stack).dir <= Len(DIRECTIONS)
TriedDirection == DIRECTIONS[Last(stack).dir]
TriedState == move(Last(SearchPath), TriedDirection[1], TriedDirection[2])[1]

\* a step of search: the branch stays free of repeats; a successor on the
\* branch is skipped; a successor off the branch (on the board, not the
\* reverse move) is entered, whether or not another branch recorded it
BranchOnlyCycleTest ==
    /\ (pc' \in {"search", "scan_search"}) => Distinct(SearchPath')
    /\ (AtDirection /\ InSeq(TriedState, SearchPath)) =>
           /\ SearchPath' = SearchPath
           /\ Len(stack') = Len(stack)
    /\ (AtDirection /\ TriedState # NoneState /\ ~InSeq(TriedState, SearchPath)
            /\ ~is_reverse(TriedDirection, SearchMoves)) =>
           /\ SearchPath' = Append(SearchPath, TriedState)
           /\ Len(stack') = Len(stack) + 1

C30_OffBranch ==
    /\ AtDirection
    /\ TriedState # NoneState
    /\ ~InSeq(TriedState, SearchPath)
    /\ ~is_reverse(TriedDirection, SearchMoves)
    /\ dict_has(frontier, compress(TriedState))

\* the lists the driver handed to the call of search that has returned:
\* [state] and [] on the search from the initial state, the node of the
\* scanned entry and its decoded moves on a resumed search
HandedPath ==
    IF pc = "search" THEN <<ida_state>>
    ELSE <<decompress(snapshot[scan_index][1], get_size(ida_state))>>
HandedMoves ==
    IF pc = "search" THEN <<>> ELSE decompress_moves(snapshot[scan_index][2])

IsPrefix(a, b) == Len(a) <= Len(b) /\ SubSeq(b, 1, Len(a)) = a

\* the call of search the driver made has returned
DriverCallReturned == pc \in {"search", "scan_search"} /\ stack = <<>>

\* the lists of search over a step: a push leaves what was there, a return
\* without FOUND leaves nothing new, each running call has one state and one
\* move more than its caller, and when the call of the driver has returned
\* the lists are the ones it was handed unless it returned FOUND
ListsRestored ==
    /\ (Searching /\ Len(stack') = Len(stack) + 1) =>
           /\ Front(SearchPath') = SearchPath
           /\ Front(SearchMoves') = SearchMoves
    /\ (Searching /\ Len(stack') <= Len(stack) /\ ~ret'.is_bool) =>
           /\ IsPrefix(SearchPath', SearchPath)
           /\ IsPrefix(SearchMoves', SearchMoves)
    /\ (Searching' /\ Last(stack').at \in {"enter", "loop"}) =>
           /\ Len(SearchPath') = Len(stack')
           /\ Len(SearchMoves') = Last(stack').depth
    /\ (DriverCallReturned /\ ~ret.is_bool) =>
           /\ SearchPath = HandedPath
           /\ SearchMoves = HandedMoves
    /\ (DriverCallReturned /\ ret.is_bool) =>
           /\ IsPrefix(HandedPath, SearchPath)
           /\ IsPrefix(HandedMoves, SearchMoves)
           /\ Len(SearchPath) - Len(HandedPath) = Len(SearchMoves) - Len(HandedMoves)

\* C31: when a call of search returns anything other than FOUND, path and
\* move_sequence hold exactly what they held when the call began; they stay
\* extended only when FOUND is returned.
C31_ListsRestoredUnlessFound == [][ListsRestored]_vars

\* a resumed search that expanded successors returned a cost, its lists as
\* the scan handed them
C31_Witness ==
    /\ pc = "scan_search" /\ stack = <<>>
    /\ ~ret.is_bool /\ ret.val < INFINITY
    /\ frontier_path = HandedPath
    /\ moves = HandedMoves /\ moves # <<>>
    /\ \E i \in 1..Len(frontier) :
           /\ get_moves_length(frontier[i][2]) >= Len(moves) + 2
           /\ IsPrefix(moves, decompress_moves(frontier[i][2]))

\* the heuristic with the given groups and databases falls by at most one
\* over every unit move from s
ConsistentAt(groups, databases, s) ==
    \A t \in Neighbours({s}) :
        calculate_heuristic(groups, databases, s)
            <= 1 + calculate_heuristic(groups, databases, t)

\* the databases of the board size are built and no solve has begun
DatabasesBuilt == pc = "idle" /\ returned = <<>> /\ db_file[board_size] # NoFile

\* C32: with the databases built for the disjoint partition the heuristic is
\* consistent: calculate_heuristic(s) <= 1 + calculate_heuristic(s') for every
\* valid state s and every valid unit move from s to s'.  Stated of every
\* input state of the board size once the databases are built, and of every
\* node a call of search begins on.
C32_HeuristicConsistent ==
    /\ DatabasesBuilt =>
           \A s \in StartStates(board_size) :
               ConsistentAt(db_file[board_size][1], db_file[board_size][2], s)
    /\ (Searching /\ Last(stack).at = "enter") =>
           ConsistentAt(pattern_groups, pattern_databases, Last(SearchPath))

\* a call of search begins on a 3x3 node, not the goal, with a neighbour
\* whose heuristic is one lower and a neighbour whose heuristic is one higher
C32_Witness ==
    /\ Searching
    /\ Last(stack).at = "enter"
    /\ get_size(ida_state) = 3
    /\ LET s == Last(SearchPath)
           h(t) == calculate_heuristic(pattern_groups, pattern_databases, t)
       IN  /\ s # get_win(3)
           /\ \E t \in Neighbours({s}) : h(s) = 1 + h(t)
           /\ \E t \in Neighbours({s}) : h(t) = 1 + h(s)

(***************************************************************************)
(* A run of main of pattern_db.py alone, each step taken when it can be.   *)
(***************************************************************************)
NextBuild ==
    \/ BuildStart
    \/ BuildStep
    \/ BuildReturn
    \/ MainDump

SpecBuild == Init /\ [][NextBuild]_vars /\ WF_vars(NextBuild)

\* the configuration at the head of the queue: the positions of the group's
\* tiles and of the blank
HeadConfiguration ==
    Puzzle_hash(Head(open_list)[1], tile_groups[group_number] \cup {0})

\* a turn of the while loop processes the configuration at the head of the
\* queue (stores its pattern, queues its successors) only when it was not
\* processed before, and then marks it; otherwise it only drops it
ProcessedOnce ==
    (pc = "bfs" /\ open_list # <<>>) =>
        IF HeadConfiguration \in visited
        THEN /\ visited' = visited
             /\ closed_list' = closed_list
             /\ open_list' = Tail(open_list)
        ELSE /\ visited' = visited \cup {HeadConfiguration}
             /\ Puzzle_hash(Head(open_list)[1], tile_groups[group_number]) \in DOMAIN closed_list'

\* the patterns of the group reachable from the goal by legal moves
ReachablePatterns(size, group) ==
    LET levels == CostLevels({}, FreeClosure({GoalConfig(size, group)}, group), group)
    IN  {PyStr(PatternDigits(c, group, 1)) : c \in UNION {levels[k] : k \in 1..Len(levels)}}

\* every database main got back holds the reachable patterns of its group
\* and no other key
ResultComplete ==
    pc = "dump" =>
        \A g \in 1..Len(built) :
            DOMAIN built[g] = ReachablePatterns(board_size, tile_groups[g])

\* C33: build_pattern_database terminates for every board size and group
\* (its queue drains), processes each configuration of the positions of the
\* group's tiles plus the blank at most once, and its result holds one entry
\* for every pattern of the group reachable from the goal by legal moves,
\* and no other.
C33_BuildDrainsOncePerConfiguration ==
    /\ [][ProcessedOnce]_vars
    /\ []ResultComplete
    /\ [](pc = "bfs" => <>(pc = "bfs" /\ open_list = <<>>))
    /\ <>(pc = "idle")

\* the databases of the 3x3 board are all built: every group's queue
\* drained, and a database holds more patterns than one
C33_Witness ==
    /\ pc = "dump"
    /\ board_size = 3
    /\ Len(built) = Len(tile_groups)
    /\ open_list = <<>>
    /\ \A g \in 1..Len(built) : Cardinality(DOMAIN built[g]) > 1

\* the pattern of the configuration at the head of the queue
HeadPattern == Puzzle_hash(Head(open_list)[1], tile_groups[group_number])

\* the configuration at the head of the queue is one the turn will process
ProcessesHead == pc = "bfs" /\ open_list # <<>> /\ HeadConfiguration \notin visited

\* a turn of the loop of a build: no entry is removed or raised; the pattern
\* of a processed configuration gets the lesser of its entry and the current
\* count, the current count when it has no entry; no other entry changes
OnlyLowered ==
    pc = "bfs" =>
        /\ \A key \in DOMAIN closed_list :
               /\ key \in DOMAIN closed_list'
               /\ closed_list'[key] <= closed_list[key]
        /\ ProcessesHead =>
               LET count == Head(open_list)[1].count
               IN  /\ DOMAIN closed_list' = DOMAIN closed_list \cup {HeadPattern}
                   /\ closed_list'[HeadPattern] =
                          IF HeadPattern \in DOMAIN closed_list
                             /\ closed_list[HeadPattern] <= count
                          THEN closed_list[HeadPattern] ELSE count
                   /\ \A key \in DOMAIN closed_list :
                          key # HeadPattern => closed_list'[key] = closed_list[key]
        /\ ~ProcessesHead => closed_list' = closed_list

\* C34: during a build the cost recorded for a pattern is only ever lowered:
\* visit_node stores the current count when the pattern has no entry and
\* replaces an entry only by a smaller count, so that an entry is at every
\* time the least count of the processed configurations with its pattern.
C34_CostOnlyLowered == [][OnlyLowered]_vars

\* the turn that lowers an entry: the configuration at the head of the queue
\* is new, its pattern has an entry, and its count is below the entry
C34_Witness ==
    /\ ProcessesHead
    /\ HeadPattern \in DOMAIN closed_list
    /\ Head(open_list)[1].count < closed_list[HeadPattern]

\* the turn that leaves an entry alone: a new configuration whose count is
\* above the entry of its pattern
C34_Kept ==
    /\ ProcessesHead
    /\ HeadPattern \in DOMAIN closed_list
    /\ Head(open_list)[1].count > closed_list[HeadPattern]

\* the groups loaded cover every tile of the board of the solve
CoversAllTiles ==
    UNION {pattern_groups[g] : g \in 1..Len(pattern_groups)}
        = 1..(Len(ida_state) - 1)

\* C35: no exceeded cost is mistaken for the FOUND sentinel: in a solve with
\* a partition covering all tiles the first bound h(s) is at least 1 for
\* every non-goal s, the bound stays at least 1, and no call of search
\* returns the integer cost 1, which compares equal to True.
C35_NoCostEqualsFound ==
    (Running /\ CoversAllTiles) =>
        /\ ida_state # get_win(get_size(ida_state))
        /\ Called => bound = calculate_heuristic(pattern_groups, pattern_databases, ida_state)
        /\ bound >= 1
        /\ (clock > 0 /\ EqualsTrue(ret)) => ret.is_bool
        /\ (clock > 0 /\ pc = "scan") => min_exceeded > 1

\* a call of search returned a cost at the least bound there is, 1, on a
\* state one move from the goal
C35_Witness ==
    /\ Running /\ CoversAllTiles
    /\ calculate_heuristic(pattern_groups, pattern_databases, ida_state) = 1
    /\ bound = 1
    /\ pc = "search" /\ stack # <<>>
    /\ Last(stack).at = "wait"
    /\ ~ret.is_bool /\ ret.val > 1 /\ ret.val < INFINITY

(***************************************************************************)
(* tests/test_puzzle.py: a Puzzle constructed and moved                    *)
(***************************************************************************)
\* puzzle = Puzzle(boardSize): f_ret holds the object and the number of
\* calls of move made on it
InitPuzzle ==
    /\ m_root = <<>>
    /\ m_state = <<>>
    /\ m_steps = 0
    /\ m_call = NoCall
    /\ m_ret = <<NoneState, NoneTile>>
    /\ \E size \in 2..MaxSize :
          /\ f_call = [fn |-> "Puzzle", arg |-> size, self |-> <<>>]
          /\ f_ret = [ret |-> TRUE, self |-> Puzzle_init(size), calls |-> 0]
    /\ t_saved = NoThread
    /\ Idle

\* result = puzzle.move(direction), direction one of Puzzle.DIRECTIONS;
\* f_call keeps the object as it was before the call
PuzzleMove(i) ==
    /\ pc = "off"
    /\ f_ret.calls < MaxWalk
    /\ LET r == Puzzle_move(f_ret.self, Puzzle_DIRECTIONS[i])
       IN  /\ f_call' = [fn |-> "Puzzle.move", arg |-> Puzzle_DIRECTIONS[i], self |-> f_ret.self]
           /\ f_ret' = [ret |-> r[1], self |-> r[2], calls |-> f_ret.calls + 1]
    /\ UNCHANGED <<m_root, m_state, m_steps, m_call, m_ret, t_saved, pc, buildVars, solveVars>>

NextPuzzle == \E i \in 1..Len(Puzzle_DIRECTIONS) : PuzzleMove(i)

SpecPuzzle == InitPuzzle /\ [][NextPuzzle]_vars

\* the cell a move would take the blank to is off the board
OutOfBounds(self, direction) ==
    LET r == self.blank_position[1] + direction[1]
        c == self.blank_position[2] + direction[2]
    IN  r < 0 \/ r >= self.boardSize \/ c < 0 \/ c >= self.boardSize

\* the board holds each of 0..N*N-1 exactly once
IsPermutationBoard(self) ==
    LET N == self.boardSize
        cells == (1..N) \X (1..N)
    IN  /\ DOMAIN self.board = 1..N
        /\ \A i \in 1..N : DOMAIN self.board[i] = 1..N
        /\ \A v \in 0..(N * N - 1) :
              Cardinality({c \in cells : self.board[c[1]][c[2]] = v}) = 1

\* C36: after any sequence of Puzzle.move calls, valid or out of bounds, from
\* a newly constructed puzzle, board[blank_position] is 0 and the board holds
\* each of 0..N*N-1 exactly once; an out-of-bounds move returns False and
\* changes neither the board nor blank_position.
C36_PuzzleMoveKeepsBoard ==
    f_call.fn \in {"Puzzle", "Puzzle.move"} =>
        /\ f_ret.self.board[f_ret.self.blank_position[1] + 1][f_ret.self.blank_position[2] + 1] = 0
        /\ IsPermutationBoard(f_ret.self)
        /\ (f_call.fn = "Puzzle.move" /\ OutOfBounds(f_call.self, f_call.arg)) =>
              /\ f_ret.ret = FALSE
              /\ f_ret.self.board = f_call.self.board
              /\ f_ret.self.blank_position = f_call.self.blank_position

\* an out-of-bounds move made on a 3x3 puzzle that valid moves have taken
\* away from the solved board, the blank in the middle of an edge
C36_Witness ==
    /\ f_call.fn = "Puzzle.move"
    /\ OutOfBounds(f_call.self, f_call.arg)
    /\ f_ret.ret = FALSE
    /\ f_ret.calls = MaxWalk
    /\ f_ret.self.boardSize = 3
    /\ f_ret.self.board # Puzzle_init(3).board
    /\ f_ret.self.blank_position = <<1, 0>>

----------------------------------------------------------------------------
\* the 2-bit code the layout gives a move: UP 00, DOWN 01, LEFT 10, RIGHT 11
StatedCode(mv) ==
    CASE mv = <<-1, 0>> -> 0
      [] mv = <<1, 0>> -> 1
      [] mv = <<0, -1>> -> 2
      [] mv = <<0, 1>> -> 3

\* the value packed reads as the layout of the moves ms: the length in the
\* low 8 bits, above them move i of n in bits 8+2(n-i) and 8+2(n-i)+1, the
\* first move highest, and nothing above the codes
LaidOut(ms, packed) ==
    LET n == Len(ms)
    IN  /\ ToNat(LowBits(packed, 8)) = n
        /\ \A i \in 1..n :
              ToNat(LowBits(Shr(packed, 8 + 2 * (n - i)), 2)) = StatedCode(ms[i])
        /\ Shr(packed, 8 + 2 * n) = <<>>

\* C37: compress_moves lays the bits out as specified: the low 8 bits hold
\* the sequence length, and above them each move is a 2-bit code UP(-1,0)=00,
\* DOWN(1,0)=01, LEFT(0,-1)=10, RIGHT(0,1)=11, the first move in the most
\* significant position of the code region and the last in the least.
C37_MovesLaidOut ==
    f_call.fn = "compress_moves" => LaidOut(f_call.arg, f_ret.packed)

\* the same for the lists of at most 255 moves
C37_LaidOutUpTo255 ==
    (f_call.fn = "compress_moves" /\ Len(f_call.arg) <= 255) =>
        LaidOut(f_call.arg, f_ret.packed)

\* three different moves packed, the first in the highest code
C37_UpTo255Reached ==
    /\ f_call.fn = "compress_moves"
    /\ f_call.arg = << <<0, 1>>, <<1, 0>>, <<0, -1>> >>
    /\ f_ret.packed = FromNat(3 + 256 * (2 + 4 * 1 + 16 * 3))

(***************************************************************************)
(* tests/test_matrix.py: the two Manhattan distances on one state          *)
(***************************************************************************)
\* the tile sets a pattern keeps: none, one or two tiles, or all of them
KeptTiles(size) ==
    LET tiles == 1..(size * size - 1)
    IN  {{}} \cup {{a, b} : a \in tiles, b \in tiles} \cup {tiles}

\* the states and zero-filled patterns the distances are called on: for each
\* size up to the 15-puzzle's, the states within MaxWalk moves of the goal or
\* of the goal with its last two tiles swapped, with the tiles outside a
\* kept set replaced by zeros
DistanceInputs ==
    UNION {{replace_with_zeros(s, keep) :
                s \in Within({get_win(size), SwappedWin(size)}, MaxWalk),
                keep \in KeptTiles(size)} : size \in 2..(MaxSize + 1)}

\* manhattan_distance(current, goal) and manhattan_distance_to_win(current),
\* goal the winning state of current's size
UnitDistance(s) ==
    /\ pc = "off"
    /\ f_call.fn = "none"
    /\ f_call' = [fn |-> "manhattan_distance", arg |-> s, goal |-> get_win(get_size(s))]
    /\ f_ret' = [distance_general |-> manhattan_distance(s, get_win(get_size(s))),
                 distance_to_win |-> manhattan_distance_to_win(s)]
    /\ UNCHANGED <<m_root, m_state, m_steps, m_call, m_ret, t_saved, pc, buildVars, solveVars>>

NextDistance == \E s \in DistanceInputs : UnitDistance(s)

SpecDistance == InitUnit /\ [][NextDistance]_vars

\* the sum over the non-blank tiles of s of the row plus column distance to
\* the cell that holds the tile in goal
SumOfTileDistances(s, goal) ==
    LET size == get_size(s)
        cell(t) == CHOOSE j \in 1..Len(goal) : goal[j] = t
        d(i) == IF s[i] = 0 THEN 0
                ELSE Abs(((i - 1) \div size) - ((cell(s[i]) - 1) \div size))
                   + Abs(((i - 1) % size) - ((cell(s[i]) - 1) % size))
    IN  SumTo(d, Len(s))

C38_WitnessPattern ==
    /\ f_call.fn = "manhattan_distance"
    /\ Cardinality({i \in 1..Len(f_call.arg) : f_call.arg[i] # 0}) = 2
    /\ Len(f_call.arg) = 9
    /\ f_ret.distance_to_win >= 3

=============================================================================
